---- MODULE Spec2Model ----
(***************************************************************************)
(* Credential & access control subsystem of the course-material server:    *)
(* department codes (User model), OAuth token lifecycle (authController,   *)
(* config/googleAuth), folder lifecycle against Google Drive               *)
(* (folderController, driveService), student access (studentController)    *)
(* and the audit log (utils/logger).                                       *)
(*                                                                         *)
(* Every HTTP request is a slot of reqs.  A handler is cut at its awaits:  *)
(* the code between two awaits runs without interruption (one Node.js      *)
(* event-loop turn), so each action is "the await resolves, then the       *)
(* synchronous code up to the next await".  A database read or write, a    *)
(* Drive call and an issuer call are each one atomic event.                *)
(***************************************************************************)
EXTENDS Integers, Sequences, FiniteSets, TLC

VARIABLES
  users,          \* User collection: _id -> document
  folders,        \* Folder collection: _id -> document
  logs,           \* Log collection, in insertion order
  drive,          \* Google Drive: folder id -> provider-side state
  providerCalls,  \* calls Google received: who asked, whose credentials came
  oauth2Client,   \* credentials of the one shared google.auth.OAuth2 object
  issued,         \* number of access tokens the issuer has issued so far
  clock,          \* new Date()
  reqs            \* request slot -> handler state (locals, position, response)

vars == <<users, folders, logs, drive, providerCalls, oauth2Client, issued, clock, reqs>>

(***************************************************************************)
(* Bounds of the model.                                                    *)
(***************************************************************************)
MaxReq == 3
MaxVerifyReq == 2
MaxFolderReq == 2
MaxTokenReq == 2
MaxIssued == 4
MaxClock == 3
TokenLifetime == 2
SafetyMargin == 1

Slots == 1 .. MaxReq

(***************************************************************************)
(* Values.                                                                 *)
(***************************************************************************)
Undefined == "undefined"

Departments == {"CSE", "ECE"}

PermissionEnum == {"view", "comment", "edit"}

CurrentKey == "key1"

NoToken == [sub |-> "none", n |-> 0]

NoTokens == [accessToken |-> NoToken, refreshToken |-> NoToken, expiryDate |-> 0]

\* A departmentCode as assigned by a handler, before the pre('save') hook.
Plain(code) == [pt |-> code, key |-> "", iv |-> 0]

NoCode == Plain("")

NoDoc == [facultyId |-> "none", department |-> "", subject |-> "", description |-> "",
          driveFolderId |-> 0, driveFolderLink |-> 0, permissions |-> "",
          isActive |-> FALSE, viewCount |-> 0, lastAccessed |-> 0]

NoBody == [subject |-> Undefined, description |-> Undefined, permissions |-> Undefined,
           department |-> Undefined, departmentCode |-> Undefined, isActive |-> Undefined,
           role |-> Undefined]

NoData == [link |-> 0, links |-> {}, department |-> "", folders |-> {}, departments |-> {},
           faculty |-> {}, total |-> 0]

NoUser == [role |-> "", department |-> "", departmentCode |-> NoCode, isActive |-> FALSE,
           googleTokens |-> NoTokens]

Idle == [op |-> "none", pc |-> "idle", user |-> "none", me |-> "", fid |-> 0, target |-> "none",
         body |-> NoBody, doc |-> NoDoc, udoc |-> NoUser, modified |-> {}, tokens |-> NoTokens,
         drv |-> 0, status |-> 0, message |-> "", data |-> NoData]

Token(u, k) == [sub |-> u, n |-> k]

Tokens(u, k) == [accessToken |-> Token(u, k), refreshToken |-> Token(u, k), expiryDate |-> k]

(***************************************************************************)
(* User model.  departmentCode is what the pre('save') hook stored:        *)
(* CryptoJS.AES.encrypt(code, ENCRYPTION_KEY) with a fresh random salt.    *)
(***************************************************************************)
Encrypt(pt, key, iv) == [pt |-> pt, key |-> key, iv |-> iv]

Thrown == "<Malformed UTF-8 data>"

\* CryptoJS.AES.decrypt(...).toString(Utf8): the plaintext under the right key;
\* under another key the bytes are garbage: the empty string, or a throw.
DecryptOutcomes(ct, key) == IF ct.key = key THEN {ct.pt} ELSE {"", Thrown}

\* userSchema.methods.getDecryptedDepartmentCode: null (here Undefined) without a code.
getDecryptedDepartmentCode(u) ==
  IF u.departmentCode = NoCode THEN {Undefined}
  ELSE DecryptOutcomes(u.departmentCode, CurrentKey)

UserDoc(role, dept, code, active, tok) ==
  [role |-> role, department |-> dept, departmentCode |-> code, isActive |-> active,
   googleTokens |-> tok]

FolderDoc(owner, dept, subject, drv, perm) ==
  [facultyId |-> owner, department |-> dept, subject |-> subject, description |-> "",
   driveFolderId |-> drv, driveFolderLink |-> drv, permissions |-> perm,
   isActive |-> TRUE, viewCount |-> 0, lastAccessed |-> 0]

\* permissionMap[permission] without the "|| 'reader'": a level outside the map
\* gives no role.
permissionMapWithoutDefault(permission) ==
  CASE permission = "view" -> "reader"
    [] permission = "comment" -> "commenter"
    [] permission = "edit" -> "writer"
    [] OTHER -> Undefined

\* driveService.setFolderPermissions: permissionMap[permission] || 'reader'
permissionMap(permission) ==
  CASE permission = "view" -> "reader"
    [] permission = "comment" -> "commenter"
    [] permission = "edit" -> "writer"
    [] OTHER -> "reader"

DriveFolder(owner, role) == [owner |-> owner, role |-> role, deleted |-> FALSE]

(***************************************************************************)
(* The deployment the requests arrive at: two faculty members with a       *)
(* department code each (f3's was stored under a key that has since been   *)
(* replaced), two students, the bootstrap admin, and one folder per active *)
(* faculty member, shared as 'reader' on Drive.                            *)
(***************************************************************************)
Init ==
  /\ users = [u \in {"a1", "f1", "f2", "f3", "s1", "s2"} |->
       CASE u = "a1" -> UserDoc("admin", "", NoCode, TRUE, Tokens("a1", 0))
         [] u = "f1" -> UserDoc("faculty", "CSE", Encrypt("CSE2024ABC", CurrentKey, 1), TRUE, Tokens("f1", 0))
         [] u = "f2" -> UserDoc("faculty", "ECE", Encrypt("ECE2024XYZ", CurrentKey, 1), TRUE, Tokens("f2", 0))
         [] u = "f3" -> UserDoc("faculty", "CSE", Encrypt("cse2024abc", "key0", 1), TRUE,
                            [Tokens("f3", 0) EXCEPT !.refreshToken = NoToken])
         [] u = "s1" -> UserDoc("student", "", NoCode, TRUE, Tokens("s1", 0))
         [] u = "s2" -> UserDoc("student", "CSE", NoCode, TRUE, Tokens("s2", 0))]
  /\ folders = (1 :> FolderDoc("f1", "CSE", "Algorithms", 1, "view"))
            @@ (2 :> FolderDoc("f2", "ECE", "Signals", 2, "view"))
  /\ logs = <<>>
  /\ drive = (1 :> DriveFolder("f1", "reader")) @@ (2 :> DriveFolder("f2", "reader"))
  /\ providerCalls = {}
  /\ oauth2Client = NoTokens
  /\ issued = 0
  /\ clock = 0
  /\ reqs = [r \in Slots |-> Idle]

(***************************************************************************)
(* Helpers shared by the handlers.                                         *)
(***************************************************************************)
\* res.status(code).json(...): the handler is over.
Respond(r, code, msg, data) ==
  [reqs EXCEPT ![r].pc = "done", ![r].status = code, ![r].message = msg, ![r].data = data]

InFlight(r) == reqs[r].pc \notin {"idle", "done"}

\* A request enters a handler (after protect and the role check of its router).
Begin(r, op, u, fid, body) ==
  [reqs EXCEPT ![r] = [Idle EXCEPT !.op = op, !.pc = "start", !.user = u,
                                   !.me = users[u].department, !.fid = fid, !.body = body]]

MaxIV == 2

\* The hook without its isModified('departmentCode') test: every save encrypts what
\* the document holds, the stored ciphertext ("U2FsdGVkX1...") included.
preSaveAlways(doc, modified, iv) ==
  IF doc.departmentCode = NoCode THEN doc
  ELSE IF "departmentCode" \in modified
    THEN [doc EXCEPT !.departmentCode = Encrypt(doc.departmentCode.pt, CurrentKey, iv)]
  ELSE [doc EXCEPT !.departmentCode = Encrypt("U2FsdGVkX1", CurrentKey, iv)]

\* userSchema.pre('save'): a modified, non-empty departmentCode is replaced by its
\* encryption under ENCRYPTION_KEY (iv: the random salt of this call).
preSave(doc, modified, iv) ==
  IF "departmentCode" \in modified /\ doc.departmentCode # NoCode
    THEN [doc EXCEPT !.departmentCode = Encrypt(doc.departmentCode.pt, CurrentKey, iv)]
    ELSE doc

\* user.save() of a loaded document: the hook, then $set of the modified paths,
\* those the hook assigned included.
SaveUser(id, doc, modified, iv) ==
  LET hooked == preSave(doc, modified, iv)
      written == modified \cup {p \in DOMAIN doc : hooked[p] # doc[p]}
  IN [users EXCEPT ![id] = [p \in DOMAIN users[id] |->
                              IF p \in written THEN hooked[p] ELSE users[id][p]]]

\* save() writing the whole loaded document back, every path of it, modified or not.
SaveFolderWholeDocument(fid, doc, modified) == [folders EXCEPT ![fid] = doc]

\* mongoose document.save() of a loaded document: $set of the modified paths only.
SaveFolder(fid, doc, modified) ==
  [folders EXCEPT ![fid] = [p \in DOMAIN folders[fid] |->
                              IF p \in modified THEN doc[p] ELSE folders[fid][p]]]

LogEntry(u, action, fid) == [userId |-> u, action |-> action, folderId |-> fid]

\* createLog on a collection that keeps the latest entry only.
createLogKeepingLatest(u, action, fid, saved) ==
  IF saved THEN <<LogEntry(u, action, fid)>> ELSE logs

\* logger.createLog: the entry is saved, or the failure is swallowed (returns null).
createLog(u, action, fid, saved) ==
  IF saved THEN Append(logs, LogEntry(u, action, fid)) ELSE logs

(***************************************************************************)
(* studentController.accessFolder                                          *)
(***************************************************************************)
MaxFolders == 3

FolderIds == 1 .. MaxFolders

Students == {u \in DOMAIN users : users[u].role = "student" /\ users[u].isActive}

Faculty == {u \in DOMAIN users : users[u].role = "faculty" /\ users[u].isActive}

Admins == {u \in DOMAIN users : users[u].role = "admin" /\ users[u].isActive}

\* POST /api/students/access/:folderId
StartAccess(r, who, fids) ==
  /\ reqs[r].pc = "idle"
  /\ \E u \in who \cap Students, fid \in fids :
       reqs' = Begin(r, "access", u, fid, NoBody)
  /\ UNCHANGED <<users, folders, logs, drive, providerCalls, oauth2Client, issued, clock>>

\* accessFolder_findById without the test of folder.isActive.
accessFolder_findByIdAnyFolder(r) ==
  /\ reqs[r].op = "access" /\ reqs[r].pc = "start"
  /\ LET fid == reqs[r].fid IN
       IF fid \notin DOMAIN folders
         THEN reqs' = Respond(r, 404, "Folder not found", NoData)
       ELSE reqs' = [reqs EXCEPT ![r].pc = "save", ![r].doc = folders[fid]]
  /\ UNCHANGED <<users, folders, logs, drive, providerCalls, oauth2Client, issued, clock>>

\* await Folder.findById(...), the 404 and 400 returns, up to the call of
\* folder.incrementViewCount(), which changes the loaded copy and awaits save().
accessFolder_findById(r) ==
  /\ reqs[r].op = "access" /\ reqs[r].pc = "start"
  /\ LET fid == reqs[r].fid IN
       IF fid \notin DOMAIN folders
         THEN reqs' = Respond(r, 404, "Folder not found", NoData)
       ELSE IF ~folders[fid].isActive
         THEN reqs' = Respond(r, 400, "This folder is no longer available", NoData)
       ELSE reqs' = [reqs EXCEPT ![r].pc = "save", ![r].doc = folders[fid]]
  /\ UNCHANGED <<users, folders, logs, drive, providerCalls, oauth2Client, issued, clock>>

\* folderSchema.methods.incrementViewCount: this.viewCount += 1;
\* this.lastAccessed = new Date(); the pair as the document to save.
incrementViewCount(doc, now) ==
  [doc EXCEPT !.viewCount = doc.viewCount + 1, !.lastAccessed = now]

\* await this.save() of incrementViewCount: the two paths are written.
accessFolder_incrementViewCount(r) ==
  /\ reqs[r].op = "access" /\ reqs[r].pc = "save"
  /\ LET doc == incrementViewCount(reqs[r].doc, clock + 1) IN
       /\ folders' = SaveFolder(reqs[r].fid, doc, {"viewCount", "lastAccessed"})
       /\ reqs' = [reqs EXCEPT ![r].pc = "log", ![r].doc = doc]
  /\ clock' = clock + 1
  /\ UNCHANGED <<users, logs, drive, providerCalls, oauth2Client, issued>>

\* await createLog(..., 'view_folder', ...), then the 200 with the link.
accessFolder_createLog(r) ==
  /\ reqs[r].op = "access" /\ reqs[r].pc = "log"
  /\ \E saved \in BOOLEAN :
       logs' = createLog(reqs[r].user, "view_folder", reqs[r].fid, saved)
  /\ reqs' = Respond(r, 200, "Folder accessed",
                     [NoData EXCEPT !.link = reqs[r].doc.driveFolderLink])
  /\ UNCHANGED <<users, folders, drive, providerCalls, oauth2Client, issued, clock>>

(***************************************************************************)
(* studentController.getMaterials                                          *)
(***************************************************************************)
\* GET /api/students/materials?department=...
StartMaterials(r, who) ==
  /\ reqs[r].pc = "idle"
  /\ \E u \in who \cap Students, d \in Departments \cup {Undefined} :
       reqs' = Begin(r, "materials", u, 0, [NoBody EXCEPT !.department = d])
  /\ UNCHANGED <<users, folders, logs, drive, providerCalls, oauth2Client, issued, clock>>

\* Folder.find({isActive: true, department?}): the documents go out whole,
\* driveFolderLink included (only __v is deselected).
getMaterials(r) ==
  /\ reqs[r].op = "materials" /\ reqs[r].pc = "start"
  /\ LET d == reqs[r].body.department
         found == {f \in DOMAIN folders :
                     /\ folders[f].isActive
                     /\ (d # Undefined => folders[f].department = d)}
     IN reqs' = Respond(r, 200, "",
                        [NoData EXCEPT !.links = {folders[f].driveFolderLink : f \in found}])
  /\ UNCHANGED <<users, folders, logs, drive, providerCalls, oauth2Client, issued, clock>>

(***************************************************************************)
(* studentController.verifyDepartmentCode                                  *)
(***************************************************************************)
Codes == {"CSE2024ABC", "cse2024abc", "ECE2024XYZ"}

DecryptValues == Codes \cup {"", Thrown, Undefined}

\* The order User.find returns documents in.
UserOrder == <<"a1", "f1", "f2", "f3", "s1", "s2">>

\* findFaculties without the isActive filter.
findFacultiesAnyStatus(department) ==
  LET Match(u) == /\ u \in DOMAIN users
                  /\ users[u].role = "faculty"
                  /\ users[u].department = department
  IN SelectSeq(UserOrder, Match)

\* User.find({role: 'faculty', department, isActive: true})
findFaculties(department) ==
  LET Match(u) == /\ u \in DOMAIN users
                  /\ users[u].role = "faculty"
                  /\ users[u].department = department
                  /\ users[u].isActive
  IN SelectSeq(UserOrder, Match)

UpperCase(code) == IF code = "cse2024abc" THEN "CSE2024ABC" ELSE code

\* anyFacultyHasCode comparing without regard to case.
RECURSIVE anyFacultyHasCodeIgnoringCase(_, _, _)
anyFacultyHasCodeIgnoringCase(faculties, dec, code) ==
  IF faculties = <<>> THEN FALSE
  ELSE IF dec[Head(faculties)] # Thrown /\ UpperCase(dec[Head(faculties)]) = UpperCase(code) THEN TRUE
  ELSE anyFacultyHasCodeIgnoringCase(Tail(faculties), dec, code)

\* for (const faculty of faculties) { try { if (decrypted === code) { isValid = true;
\* break } } catch { continue } }: dec is what each decryption gave.
RECURSIVE anyFacultyHasCode(_, _, _)
anyFacultyHasCode(faculties, dec, code) ==
  IF faculties = <<>> THEN FALSE
  ELSE IF dec[Head(faculties)] # Thrown /\ dec[Head(faculties)] = code THEN TRUE
  ELSE anyFacultyHasCode(Tail(faculties), dec, code)

\* POST /api/students/verify-code (validateDepartmentCode: a non-empty code)
StartVerify(r, who, codes) ==
  /\ reqs[r].pc = "idle"
  /\ \E u \in who \cap Students, d \in Departments, c \in codes :
       reqs' = Begin(r, "verify", u, 0,
                     [NoBody EXCEPT !.department = d, !.departmentCode = c])
  /\ UNCHANGED <<users, folders, logs, drive, providerCalls, oauth2Client, issued, clock>>

\* await User.find(...), the 404, the loop, the 401, and either the 200 or the
\* await of User.findById for a student without a department.
verifyDepartmentCode_find(r) ==
  /\ reqs[r].op = "verify" /\ reqs[r].pc = "start"
  /\ LET department == reqs[r].body.department
         faculties == findFaculties(department)
         ids == {faculties[i] : i \in 1 .. Len(faculties)}
     IN IF Len(faculties) = 0
          THEN reqs' = Respond(r, 404, "No faculty found for this department", NoData)
        ELSE \E dec \in [ids -> DecryptValues] :
               /\ \A f \in ids : dec[f] \in getDecryptedDepartmentCode(users[f])
               /\ IF ~anyFacultyHasCode(faculties, dec, reqs[r].body.departmentCode)
                    THEN reqs' = Respond(r, 401, "Invalid department code", NoData)
                  ELSE IF reqs[r].me = ""
                    THEN reqs' = [reqs EXCEPT ![r].pc = "findStudent"]
                  ELSE reqs' = Respond(r, 200, "Department code verified successfully",
                                       [NoData EXCEPT !.department = department])
  /\ UNCHANGED <<users, folders, logs, drive, providerCalls, oauth2Client, issued, clock>>

\* await User.findById(req.user._id); student.department = department; save() is called.
verifyDepartmentCode_findStudent(r) ==
  /\ reqs[r].op = "verify" /\ reqs[r].pc = "findStudent"
  /\ reqs' = [reqs EXCEPT ![r].pc = "saveStudent"]
  /\ UNCHANGED <<users, folders, logs, drive, providerCalls, oauth2Client, issued, clock>>

\* await student.save(): the department path is written; then the 200.
verifyDepartmentCode_save(r) ==
  /\ reqs[r].op = "verify" /\ reqs[r].pc = "saveStudent"
  /\ users' = SaveUser(reqs[r].user,
                       [users[reqs[r].user] EXCEPT !.department = reqs[r].body.department],
                       {"department"}, 1)
  /\ reqs' = Respond(r, 200, "Department code verified successfully",
                     [NoData EXCEPT !.department = reqs[r].body.department])
  /\ UNCHANGED <<folders, logs, drive, providerCalls, oauth2Client, issued, clock>>

(***************************************************************************)
(* driveService: every call first overwrites the credentials of the one    *)
(* shared oauth2Client, then hands that client to the googleapis request,  *)
(* which reads client.credentials when it builds the Authorization header. *)
(* Whether that read happens in the caller's turn or after an await inside *)
(* the library depends on the library version, so the request is its own   *)
(* step: it may, or may not, directly follow the setCredentials.           *)
(***************************************************************************)
\* oauth2Client.setCredentials({access_token, refresh_token})
setCredentials(tokens) ==
  [accessToken |-> tokens.accessToken, refreshToken |-> tokens.refreshToken, expiryDate |-> 0]

\* One request to Google: the handler that made it and the principal it acted for,
\* the operation, the access token that came with it, and whether it succeeded.
ProviderCall(r, op, ok) ==
  [req |-> r, op |-> op, by |-> reqs[r].user, cred |-> oauth2Client.accessToken, ok |-> ok]

\* driveService.createFolder's drive.files.create: a new folder id, in the Drive
\* of the principal whose token came with the request.
NextDriveId == Cardinality(DOMAIN drive) + 1

driveCreate == drive @@ (NextDriveId :> DriveFolder(oauth2Client.accessToken.sub, "private"))

\* driveService.setFolderPermissions' drive.permissions.create for type 'anyone'.
drivePermission(d, permission) == [drive EXCEPT ![d].role = permissionMap(permission)]

\* driveService.deleteFolder's drive.files.delete.
driveDelete(d) == [drive EXCEPT ![d].deleted = TRUE]

(***************************************************************************)
(* folderController.updateFolder                                           *)
(***************************************************************************)
\* PUT /api/folders/:id (no validation middleware on this route)
StartUpdate(r, who, fids, subjects, permissions) ==
  /\ reqs[r].pc = "idle"
  /\ \E u \in who \cap Faculty, fid \in fids, s \in subjects, p \in permissions :
       reqs' = Begin(r, "update", u, fid, [NoBody EXCEPT !.subject = s, !.permissions = p])
  /\ UNCHANGED <<users, folders, logs, drive, providerCalls, oauth2Client, issued, clock>>

\* updateFolder_findById without the comparison of folder.facultyId with the
\* requester: any faculty member may go on to update the folder.
updateFolder_findByIdAnyRequester(r) ==
  /\ reqs[r].op = "update" /\ reqs[r].pc = "start"
  /\ LET fid == reqs[r].fid
         body == reqs[r].body
     IN IF fid \notin DOMAIN folders
          THEN reqs' = Respond(r, 404, "Folder not found", NoData)
        ELSE LET loaded == folders[fid]
                 withSubject == IF body.subject # Undefined
                                  THEN [loaded EXCEPT !.subject = body.subject] ELSE loaded
                 doc == IF body.description # Undefined
                          THEN [withSubject EXCEPT !.description = body.description]
                          ELSE withSubject
                 modified == {p \in {"subject", "description"} : doc[p] # loaded[p]}
             IN reqs' = [reqs EXCEPT ![r].doc = doc, ![r].modified = modified,
                                     ![r].pc = IF body.permissions # Undefined
                                                  /\ body.permissions # loaded.permissions
                                               THEN "findFaculty" ELSE "save"]
  /\ UNCHANGED <<users, folders, logs, drive, providerCalls, oauth2Client, issued, clock>>

\* await Folder.findById, the 404 and 403 returns, the assignments to subject and
\* description, and the test "permissions && permissions !== folder.permissions".
updateFolder_findById(r) ==
  /\ reqs[r].op = "update" /\ reqs[r].pc = "start"
  /\ LET fid == reqs[r].fid
         body == reqs[r].body
     IN IF fid \notin DOMAIN folders
          THEN reqs' = Respond(r, 404, "Folder not found", NoData)
        ELSE IF folders[fid].facultyId # reqs[r].user
          THEN reqs' = Respond(r, 403, "Not authorized to update this folder", NoData)
        ELSE LET loaded == folders[fid]
                 withSubject == IF body.subject # Undefined
                                  THEN [loaded EXCEPT !.subject = body.subject] ELSE loaded
                 doc == IF body.description # Undefined
                          THEN [withSubject EXCEPT !.description = body.description]
                          ELSE withSubject
                 modified == {p \in {"subject", "description"} : doc[p] # loaded[p]}
             IN reqs' = [reqs EXCEPT ![r].doc = doc, ![r].modified = modified,
                                     ![r].pc = IF body.permissions # Undefined
                                                  /\ body.permissions # loaded.permissions
                                               THEN "findFaculty" ELSE "save"]
  /\ UNCHANGED <<users, folders, logs, drive, providerCalls, oauth2Client, issued, clock>>

\* await User.findById(req.user._id), then setFolderPermissions up to its request:
\* the shared client's credentials are overwritten.
updateFolder_findFaculty(r) ==
  /\ reqs[r].op = "update" /\ reqs[r].pc = "findFaculty"
  /\ reqs' = [reqs EXCEPT ![r].tokens = users[reqs[r].user].googleTokens, ![r].pc = "drivePerm"]
  /\ oauth2Client' = setCredentials(users[reqs[r].user].googleTokens)
  /\ UNCHANGED <<users, folders, logs, drive, providerCalls, issued, clock>>

\* updateFolder_setFolderPermissions with the Drive failure caught and ignored, the
\* way deleteFolderById treats deleteFolder: the handler goes on to save().
updateFolder_setFolderPermissionsIgnoringFailure(r) ==
  /\ reqs[r].op = "update" /\ reqs[r].pc = "drivePerm"
  /\ \E ok \in BOOLEAN :
       /\ providerCalls' = providerCalls \cup {ProviderCall(r, "setFolderPermissions", ok)}
       /\ drive' = IF ok THEN drivePermission(reqs[r].doc.driveFolderId, reqs[r].body.permissions)
                  ELSE drive
       /\ reqs' = [reqs EXCEPT ![r].doc.permissions = reqs[r].body.permissions,
                               ![r].modified = reqs[r].modified \cup {"permissions"},
                               ![r].pc = "save"]
  /\ UNCHANGED <<users, folders, logs, oauth2Client, issued, clock>>

\* updateFolder_setFolderPermissions with the folder made anew in Drive for the new
\* permission, and the record pointed at the new Drive folder.
updateFolder_setFolderPermissionsOnNewFolder(r) ==
  /\ reqs[r].op = "update" /\ reqs[r].pc = "drivePerm"
  /\ \E ok \in BOOLEAN :
       /\ providerCalls' = providerCalls \cup {ProviderCall(r, "setFolderPermissions", ok)}
       /\ IF ok
         THEN /\ drive' = drive @@ (NextDriveId :> DriveFolder(oauth2Client.accessToken.sub,
                                       permissionMap(reqs[r].body.permissions)))
              /\ reqs' = [reqs EXCEPT ![r].doc.permissions = reqs[r].body.permissions,
                                      ![r].doc.driveFolderId = NextDriveId,
                                      ![r].doc.driveFolderLink = NextDriveId,
                                      ![r].modified = reqs[r].modified
                                         \cup {"permissions", "driveFolderId", "driveFolderLink"},
                                      ![r].pc = "save"]
         ELSE /\ drive' = drive
              /\ reqs' = Respond(r, 500, "Failed to set folder permissions", NoData)
  /\ UNCHANGED <<users, folders, logs, oauth2Client, issued, clock>>

\* drive.permissions.create answers: on success folder.permissions = permissions and
\* save() is called; on failure setFolderPermissions throws and the catch sends 500.
updateFolder_setFolderPermissions(r) ==
  /\ reqs[r].op = "update" /\ reqs[r].pc = "drivePerm"
  /\ \E ok \in BOOLEAN :
       /\ providerCalls' = providerCalls \cup {ProviderCall(r, "setFolderPermissions", ok)}
       /\ IF ok
         THEN /\ drive' = drivePermission(reqs[r].doc.driveFolderId, reqs[r].body.permissions)
              /\ reqs' = [reqs EXCEPT ![r].doc.permissions = reqs[r].body.permissions,
                                      ![r].modified = reqs[r].modified \cup {"permissions"},
                                      ![r].pc = "save"]
         ELSE /\ drive' = drive
              /\ reqs' = Respond(r, 500, "Failed to set folder permissions", NoData)
  /\ UNCHANGED <<users, folders, logs, oauth2Client, issued, clock>>

\* await folder.save(): schema validation (permissions is an enum), then the
\* modified paths are written and 200 is sent; a validation error sends 500.
updateFolder_save(r) ==
  /\ reqs[r].op = "update" /\ reqs[r].pc = "save"
  /\ IF "permissions" \in reqs[r].modified /\ reqs[r].doc.permissions \notin PermissionEnum
       THEN /\ folders' = folders
            /\ reqs' = Respond(r, 500, "Folder validation failed", NoData)
       ELSE /\ folders' = SaveFolder(reqs[r].fid, reqs[r].doc, reqs[r].modified)
            /\ reqs' = Respond(r, 200, "Folder updated successfully", NoData)
  /\ UNCHANGED <<users, logs, drive, providerCalls, oauth2Client, issued, clock>>

(***************************************************************************)
(* folderController.deleteFolderById                                       *)
(***************************************************************************)
\* DELETE /api/folders/:id
StartDelete(r, who, fids) ==
  /\ reqs[r].pc = "idle"
  /\ \E u \in who \cap Faculty, fid \in fids :
       reqs' = Begin(r, "delete", u, fid, NoBody)
  /\ UNCHANGED <<users, folders, logs, drive, providerCalls, oauth2Client, issued, clock>>

\* deleteFolderById_findById without the comparison of folder.facultyId with the
\* requester: any faculty member may go on to delete the folder.
deleteFolderById_findByIdAnyRequester(r) ==
  /\ reqs[r].op = "delete" /\ reqs[r].pc = "start"
  /\ LET fid == reqs[r].fid IN
       IF fid \notin DOMAIN folders
         THEN reqs' = Respond(r, 404, "Folder not found", NoData)
       ELSE reqs' = [reqs EXCEPT ![r].doc = folders[fid], ![r].pc = "findFaculty"]
  /\ UNCHANGED <<users, folders, logs, drive, providerCalls, oauth2Client, issued, clock>>

\* await Folder.findById, the 404 and 403 returns, up to await User.findById.
deleteFolderById_findById(r) ==
  /\ reqs[r].op = "delete" /\ reqs[r].pc = "start"
  /\ LET fid == reqs[r].fid IN
       IF fid \notin DOMAIN folders
         THEN reqs' = Respond(r, 404, "Folder not found", NoData)
       ELSE IF folders[fid].facultyId # reqs[r].user
         THEN reqs' = Respond(r, 403, "Not authorized to delete this folder", NoData)
       ELSE reqs' = [reqs EXCEPT ![r].doc = folders[fid], ![r].pc = "findFaculty"]
  /\ UNCHANGED <<users, folders, logs, drive, providerCalls, oauth2Client, issued, clock>>

\* await User.findById, then deleteFolder up to its request.
deleteFolderById_findFaculty(r) ==
  /\ reqs[r].op = "delete" /\ reqs[r].pc = "findFaculty"
  /\ reqs' = [reqs EXCEPT ![r].tokens = users[reqs[r].user].googleTokens, ![r].pc = "driveDelete"]
  /\ oauth2Client' = setCredentials(users[reqs[r].user].googleTokens)
  /\ UNCHANGED <<users, folders, logs, drive, providerCalls, issued, clock>>

\* deleteFolderById_deleteFolder with the Drive failure thrown to the handler's
\* catch, the way updateFolder treats setFolderPermissions: 500, nothing saved.
deleteFolderById_deleteFolderThrowing(r) ==
  /\ reqs[r].op = "delete" /\ reqs[r].pc = "driveDelete"
  /\ \E ok \in BOOLEAN :
       /\ providerCalls' = providerCalls \cup {ProviderCall(r, "deleteFolder", ok)}
       /\ drive' = IF ok THEN driveDelete(reqs[r].doc.driveFolderId) ELSE drive
       /\ reqs' = IF ok
                    THEN [reqs EXCEPT ![r].doc.isActive = FALSE,
                                      ![r].modified = IF reqs[r].doc.isActive THEN {"isActive"} ELSE {},
                                      ![r].pc = "save"]
                    ELSE Respond(r, 500, "Failed to delete folder from Google Drive", NoData)
  /\ UNCHANGED <<users, folders, logs, oauth2Client, issued, clock>>

\* drive.files.delete answers; a failure is caught and ignored. Then
\* folder.isActive = false and save() is called.
deleteFolderById_deleteFolder(r) ==
  /\ reqs[r].op = "delete" /\ reqs[r].pc = "driveDelete"
  /\ \E ok \in BOOLEAN :
       /\ providerCalls' = providerCalls \cup {ProviderCall(r, "deleteFolder", ok)}
       /\ drive' = IF ok THEN driveDelete(reqs[r].doc.driveFolderId) ELSE drive
  /\ reqs' = [reqs EXCEPT ![r].doc.isActive = FALSE,
                          ![r].modified = IF reqs[r].doc.isActive THEN {"isActive"} ELSE {},
                          ![r].pc = "save"]
  /\ UNCHANGED <<users, folders, logs, oauth2Client, issued, clock>>

\* await folder.save()
deleteFolderById_save(r) ==
  /\ reqs[r].op = "delete" /\ reqs[r].pc = "save"
  /\ folders' = SaveFolder(reqs[r].fid, reqs[r].doc, reqs[r].modified)
  /\ reqs' = [reqs EXCEPT ![r].pc = "log"]
  /\ UNCHANGED <<users, logs, drive, providerCalls, oauth2Client, issued, clock>>

\* deleteFolderById_createLog with a createLog that throws when the entry cannot
\* be saved: the handler's catch sends 500.
deleteFolderById_createLogThrowing(r) ==
  /\ reqs[r].op = "delete" /\ reqs[r].pc = "log"
  /\ \E saved \in BOOLEAN :
       /\ logs' = createLog(reqs[r].user, "delete_folder", reqs[r].fid, saved)
       /\ reqs' = IF saved THEN Respond(r, 200, "Folder deleted successfully", NoData)
                  ELSE Respond(r, 500, "Error deleting folder", NoData)
  /\ UNCHANGED <<users, folders, drive, providerCalls, oauth2Client, issued, clock>>

\* await createLog(..., 'delete_folder', ...), then the 200.
deleteFolderById_createLog(r) ==
  /\ reqs[r].op = "delete" /\ reqs[r].pc = "log"
  /\ \E saved \in BOOLEAN :
       logs' = createLog(reqs[r].user, "delete_folder", reqs[r].fid, saved)
  /\ reqs' = Respond(r, 200, "Folder deleted successfully", NoData)
  /\ UNCHANGED <<users, folders, drive, providerCalls, oauth2Client, issued, clock>>

(***************************************************************************)
(* folderController.createNewFolder                                        *)
(***************************************************************************)
\* POST /api/folders (validateFolderCreation: department and permissions are valid)
StartCreate(r, who, permissions) ==
  /\ reqs[r].pc = "idle"
  /\ Cardinality(DOMAIN folders)
       + Cardinality({q \in Slots : reqs[q].op = "create" /\ reqs[q].pc # "done"}) < MaxFolders
  /\ \E u \in who \cap Faculty, p \in permissions :
       reqs' = Begin(r, "create", u, 0,
                     [NoBody EXCEPT !.department = users[u].department,
                                    !.subject = "Networks", !.permissions = p])
  /\ UNCHANGED <<users, folders, logs, drive, providerCalls, oauth2Client, issued, clock>>

\* await User.findById, the 400 without an access token, then createFolder up to
\* its request.
createNewFolder_findFaculty(r) ==
  /\ reqs[r].op = "create" /\ reqs[r].pc = "start"
  /\ LET faculty == users[reqs[r].user] IN
       IF faculty.googleTokens.accessToken = NoToken
         THEN /\ reqs' = Respond(r, 400, "Google Drive not connected", NoData)
              /\ oauth2Client' = oauth2Client
         ELSE /\ reqs' = [reqs EXCEPT ![r].tokens = faculty.googleTokens, ![r].pc = "driveCreate"]
              /\ oauth2Client' = setCredentials(faculty.googleTokens)
  /\ UNCHANGED <<users, folders, logs, drive, providerCalls, issued, clock>>

\* permissions || 'view'
permissionsOrView(permissions) == IF permissions = Undefined THEN "view" ELSE permissions

\* createNewFolder_createFolder with the Drive failure caught and ignored, the way
\* deleteFolderById treats deleteFolder: the handler goes on to save a record.
createNewFolder_createFolderIgnoringFailure(r) ==
  /\ reqs[r].op = "create" /\ reqs[r].pc = "driveCreate"
  /\ \E ok \in BOOLEAN :
       /\ providerCalls' = providerCalls \cup {ProviderCall(r, "createFolder", ok)}
       /\ IF ok
         THEN /\ drive' = driveCreate
              /\ reqs' = [reqs EXCEPT ![r].drv = NextDriveId, ![r].pc = "drivePerm"]
              /\ oauth2Client' = setCredentials(reqs[r].tokens)
         ELSE /\ drive' = drive
              /\ reqs' = [reqs EXCEPT
                   ![r].doc = FolderDoc(reqs[r].user, reqs[r].body.department, reqs[r].body.subject,
                                        0, permissionsOrView(reqs[r].body.permissions)),
                   ![r].pc = "save"]
              /\ oauth2Client' = oauth2Client
  /\ UNCHANGED <<users, folders, logs, issued, clock>>

\* drive.files.create answers: on failure createFolder throws (500); on success
\* setFolderPermissions runs up to its request (credentials overwritten again).
createNewFolder_createFolder(r) ==
  /\ reqs[r].op = "create" /\ reqs[r].pc = "driveCreate"
  /\ \E ok \in BOOLEAN :
       /\ providerCalls' = providerCalls \cup {ProviderCall(r, "createFolder", ok)}
       /\ IF ok
         THEN /\ drive' = driveCreate
              /\ reqs' = [reqs EXCEPT ![r].drv = NextDriveId, ![r].pc = "drivePerm"]
              /\ oauth2Client' = setCredentials(reqs[r].tokens)
         ELSE /\ drive' = drive
              /\ reqs' = Respond(r, 500, "Failed to create folder in Google Drive", NoData)
              /\ oauth2Client' = oauth2Client
  /\ UNCHANGED <<users, folders, logs, issued, clock>>

\* createNewFolder_setFolderPermissions with the Drive failure caught and ignored:
\* the record is saved whether the permission was set or not.
createNewFolder_setFolderPermissionsIgnoringFailure(r) ==
  /\ reqs[r].op = "create" /\ reqs[r].pc = "drivePerm"
  /\ \E ok \in BOOLEAN :
       /\ providerCalls' = providerCalls \cup {ProviderCall(r, "setFolderPermissions", ok)}
       /\ drive' = IF ok THEN drivePermission(reqs[r].drv,
                                              permissionsOrView(reqs[r].body.permissions))
                  ELSE drive
       /\ reqs' = [reqs EXCEPT
            ![r].doc = FolderDoc(reqs[r].user, reqs[r].body.department, reqs[r].body.subject,
                                 reqs[r].drv, permissionsOrView(reqs[r].body.permissions)),
            ![r].pc = "save"]
  /\ UNCHANGED <<users, folders, logs, oauth2Client, issued, clock>>

\* drive.permissions.create answers: on failure 500; on success new Folder({...})
\* and save() is called.
createNewFolder_setFolderPermissions(r) ==
  /\ reqs[r].op = "create" /\ reqs[r].pc = "drivePerm"
  /\ \E ok \in BOOLEAN :
       /\ providerCalls' = providerCalls \cup {ProviderCall(r, "setFolderPermissions", ok)}
       /\ IF ok
         THEN /\ drive' = drivePermission(reqs[r].drv, permissionsOrView(reqs[r].body.permissions))
              /\ reqs' = [reqs EXCEPT
                   ![r].doc = FolderDoc(reqs[r].user, reqs[r].body.department, reqs[r].body.subject,
                                        reqs[r].drv, permissionsOrView(reqs[r].body.permissions)),
                   ![r].pc = "save"]
         ELSE /\ drive' = drive
              /\ reqs' = Respond(r, 500, "Failed to set folder permissions", NoData)
  /\ UNCHANGED <<users, folders, logs, oauth2Client, issued, clock>>

\* The _id of a new Folder document.
NewFolderId == Cardinality(DOMAIN folders) + 1

\* await folder.save(): the insert succeeds, or the database rejects it (500).
createNewFolder_save(r) ==
  /\ reqs[r].op = "create" /\ reqs[r].pc = "save"
  /\ \E ok \in BOOLEAN :
       IF ok
         THEN /\ folders' = folders @@ (NewFolderId :> reqs[r].doc)
              /\ reqs' = [reqs EXCEPT ![r].fid = NewFolderId, ![r].pc = "log"]
         ELSE /\ folders' = folders
              /\ reqs' = Respond(r, 500, "Error creating folder", NoData)
  /\ UNCHANGED <<users, logs, drive, providerCalls, oauth2Client, issued, clock>>

\* await createLog(..., 'create_folder', ...), then the 201.
createNewFolder_createLog(r) ==
  /\ reqs[r].op = "create" /\ reqs[r].pc = "log"
  /\ \E saved \in BOOLEAN :
       logs' = createLog(reqs[r].user, "create_folder", reqs[r].fid, saved)
  /\ reqs' = Respond(r, 201, "Folder created successfully", NoData)
  /\ UNCHANGED <<users, folders, drive, providerCalls, oauth2Client, issued, clock>>

(***************************************************************************)
(* Students opening folders while their owner edits and deletes them.      *)
(***************************************************************************)
AccessSteps(r) ==
  \/ accessFolder_findById(r)
  \/ accessFolder_incrementViewCount(r)
  \/ accessFolder_createLog(r)

UpdateSteps(r) ==
  \/ updateFolder_findById(r)
  \/ updateFolder_findFaculty(r)
  \/ updateFolder_setFolderPermissions(r)
  \/ updateFolder_save(r)

DeleteSteps(r) ==
  \/ deleteFolderById_findById(r)
  \/ deleteFolderById_findFaculty(r)
  \/ deleteFolderById_deleteFolder(r)
  \/ deleteFolderById_save(r)
  \/ deleteFolderById_createLog(r)

CreateSteps(r) ==
  \/ createNewFolder_findFaculty(r)
  \/ createNewFolder_createFolder(r)
  \/ createNewFolder_setFolderPermissions(r)
  \/ createNewFolder_save(r)
  \/ createNewFolder_createLog(r)

NextAccess ==
  \E r \in Slots :
    \/ StartAccess(r, {"s1"}, {1, MaxFolders})
    \/ StartUpdate(r, {"f1"}, {1}, {"Graphs"}, {Undefined, "edit"})
    \/ StartDelete(r, {"f1"}, {1})
    \/ AccessSteps(r)
    \/ UpdateSteps(r)
    \/ DeleteSteps(r)

SpecAccess == Init /\ [][NextAccess]_vars

\* The access requests on folder f that were answered 200.
Accessed(f) == {r \in Slots : reqs[r].op = "access" /\ reqs[r].fid = f /\ reqs[r].status = 200}

\* C1: once the access calls on a folder have all completed, its viewCount is its
\* value before them (0 for every folder of Init) plus the number of calls that
\* succeeded, however their read, modify and save steps interleaved.
C1_ViewCountAdvancesByN ==
  \A f \in DOMAIN folders :
    (\A r \in Slots : reqs[r].op = "access" /\ reqs[r].fid = f => ~InFlight(r))
      => folders[f].viewCount = Cardinality(Accessed(f))

\* C2: the persisted viewCount is never negative and no step of any operation
\* writes a value smaller than the one persisted.
C2_ViewCountMonotonic ==
  [][\A f \in DOMAIN folders :
       /\ folders[f].viewCount >= 0
       /\ folders'[f].viewCount >= folders[f].viewCount]_vars

(***************************************************************************)
(* adminController: deactivateUser, activateUser, updateDepartmentCode     *)
(***************************************************************************)
\* PUT /api/admin/users/:id/deactivate, /activate, /api/admin/faculty/:id/department-code
StartAdmin(r, op, targets, codes) ==
  /\ reqs[r].pc = "idle"
  /\ \E u \in Admins, t \in targets, c \in codes :
       reqs' = [Begin(r, op, u, 0, [NoBody EXCEPT !.departmentCode = c]) EXCEPT ![r].target = t]
  /\ UNCHANGED <<users, folders, logs, drive, providerCalls, oauth2Client, issued, clock>>

\* deactivateUser_findById without the comparison of the target with the caller.
deactivateUser_findByIdAnyTarget(r) ==
  /\ reqs[r].op = "deactivate" /\ reqs[r].pc = "start"
  /\ LET t == reqs[r].target IN
       IF t \notin DOMAIN users
         THEN reqs' = Respond(r, 404, "User not found", NoData)
       ELSE reqs' = [reqs EXCEPT ![r].udoc = [users[t] EXCEPT !.isActive = FALSE],
                                 ![r].modified = IF users[t].isActive THEN {"isActive"} ELSE {},
                                 ![r].pc = "save"]
  /\ UNCHANGED <<users, folders, logs, drive, providerCalls, oauth2Client, issued, clock>>

\* await User.findById(id), the 404, the 400 for the caller's own account,
\* user.isActive = false, and save() is called.
deactivateUser_findById(r) ==
  /\ reqs[r].op = "deactivate" /\ reqs[r].pc = "start"
  /\ LET t == reqs[r].target IN
       IF t \notin DOMAIN users
         THEN reqs' = Respond(r, 404, "User not found", NoData)
       ELSE IF t = reqs[r].user
         THEN reqs' = Respond(r, 400, "Cannot deactivate your own account", NoData)
       ELSE reqs' = [reqs EXCEPT ![r].udoc = [users[t] EXCEPT !.isActive = FALSE],
                                 ![r].modified = IF users[t].isActive THEN {"isActive"} ELSE {},
                                 ![r].pc = "save"]
  /\ UNCHANGED <<users, folders, logs, drive, providerCalls, oauth2Client, issued, clock>>

\* await User.findById(id), the 404, user.isActive = true, and save() is called.
activateUser_findById(r) ==
  /\ reqs[r].op = "activate" /\ reqs[r].pc = "start"
  /\ LET t == reqs[r].target IN
       IF t \notin DOMAIN users
         THEN reqs' = Respond(r, 404, "User not found", NoData)
       ELSE reqs' = [reqs EXCEPT ![r].udoc = [users[t] EXCEPT !.isActive = TRUE],
                                 ![r].modified = IF users[t].isActive THEN {} ELSE {"isActive"},
                                 ![r].pc = "save"]
  /\ UNCHANGED <<users, folders, logs, drive, providerCalls, oauth2Client, issued, clock>>

\* updateDepartmentCode_findById without the assignment to faculty.departmentCode:
\* the document is saved as it was loaded.
updateDepartmentCode_findByIdUnassigned(r) ==
  /\ reqs[r].op = "updateCode" /\ reqs[r].pc = "start"
  /\ LET t == reqs[r].target IN
       IF t \notin DOMAIN users
         THEN reqs' = Respond(r, 404, "Faculty not found", NoData)
       ELSE IF users[t].role # "faculty"
         THEN reqs' = Respond(r, 400, "User is not a faculty member", NoData)
       ELSE reqs' = [reqs EXCEPT ![r].udoc = users[t], ![r].modified = {}, ![r].pc = "save"]
  /\ UNCHANGED <<users, folders, logs, drive, providerCalls, oauth2Client, issued, clock>>

\* await User.findById(id), the 404, the 400 for a user who is not faculty,
\* faculty.departmentCode = departmentCode, and save() is called.
updateDepartmentCode_findById(r) ==
  /\ reqs[r].op = "updateCode" /\ reqs[r].pc = "start"
  /\ LET t == reqs[r].target IN
       IF t \notin DOMAIN users
         THEN reqs' = Respond(r, 404, "Faculty not found", NoData)
       ELSE IF users[t].role # "faculty"
         THEN reqs' = Respond(r, 400, "User is not a faculty member", NoData)
       ELSE reqs' = [reqs EXCEPT
              ![r].udoc = [users[t] EXCEPT !.departmentCode = Plain(reqs[r].body.departmentCode)],
              ![r].modified = {"departmentCode"},
              ![r].pc = "save"]
  /\ UNCHANGED <<users, folders, logs, drive, providerCalls, oauth2Client, issued, clock>>

\* await user.save() of the three handlers.
adminController_save(r) ==
  /\ reqs[r].op \in {"deactivate", "activate", "updateCode"} /\ reqs[r].pc = "save"
  /\ \E iv \in 1 .. MaxIV :
       /\ "departmentCode" \notin reqs[r].modified => iv = 1
       /\ users' = SaveUser(reqs[r].target, reqs[r].udoc, reqs[r].modified, iv)
  /\ reqs' = [reqs EXCEPT ![r].pc = "log"]
  /\ UNCHANGED <<folders, logs, drive, providerCalls, oauth2Client, issued, clock>>

AdminAction(op) ==
  CASE op = "deactivate" -> "deactivate_user"
    [] op = "activate" -> "activate_user"
    [] OTHER -> "update_department_code"

\* await createLog(...), then the 200.
adminController_createLog(r) ==
  /\ reqs[r].op \in {"deactivate", "activate", "updateCode"} /\ reqs[r].pc = "log"
  /\ \E saved \in BOOLEAN :
       logs' = createLog(reqs[r].user, AdminAction(reqs[r].op), 0, saved)
  /\ reqs' = Respond(r, 200, "", NoData)
  /\ UNCHANGED <<users, folders, drive, providerCalls, oauth2Client, issued, clock>>

VerifySteps(r) ==
  \/ verifyDepartmentCode_find(r)
  \/ verifyDepartmentCode_findStudent(r)
  \/ verifyDepartmentCode_save(r)

AdminSteps(r) ==
  \/ deactivateUser_findById(r)
  \/ activateUser_findById(r)
  \/ updateDepartmentCode_findById(r)
  \/ adminController_save(r)
  \/ adminController_createLog(r)

(***************************************************************************)
(* Students verifying codes and browsing.                                  *)
(***************************************************************************)
NextGate ==
  \E r \in 1 .. MaxVerifyReq :
    \/ StartVerify(r, {"s1"}, {"CSE2024ABC", "ECE2024XYZ"})
    \/ StartAccess(r, {"s1"}, {1, 2})
    \/ StartMaterials(r, {"s1"})
    \/ VerifySteps(r)
    \/ AccessSteps(r)
    \/ getMaterials(r)

SpecGate == Init /\ [][NextGate]_vars

(***************************************************************************)
(* Students verifying codes while the admin changes who holds which code.  *)
(***************************************************************************)
NextVerify ==
  \E r \in 1 .. MaxVerifyReq :
    \/ StartVerify(r, {"s1", "s2"}, Codes)
    \/ StartAdmin(r, "deactivate", {"f1", "f2"}, {Undefined})
    \/ StartAdmin(r, "activate", {"f1"}, {Undefined})
    \/ StartAdmin(r, "updateCode", {"f3"}, {"cse2024abc"})
    \/ VerifySteps(r)
    \/ AdminSteps(r)

SpecVerify == Init /\ [][NextVerify]_vars

\* A 200 to a verify-code request of student u for department d.
Verified(u, d) ==
  \E q \in Slots : /\ reqs[q].op = "verify" /\ reqs[q].user = u
                   /\ reqs[q].status = 200 /\ reqs[q].body.department = d

\* C6: a folder's link goes out to a student, from accessFolder or from
\* getMaterials, only if a verification of the folder's department by that student
\* has succeeded before (s1, the student of SpecGate, starts with none).
C6_LinkOnlyAfterVerification ==
  \A r \in Slots :
    reqs[r].status = 200 =>
      /\ reqs[r].op = "access" => Verified(reqs[r].user, folders[reqs[r].fid].department)
      /\ reqs[r].op = "materials" =>
           \A f \in DOMAIN folders :
             folders[f].driveFolderLink \in reqs[r].data.links
               => Verified(reqs[r].user, folders[f].department)

\* The active faculty principals of a department, and those among them whose stored
\* secret is the encryption, under the current key, of exactly this code.
ActiveFacultyOf(d) ==
  {u \in DOMAIN users : users[u].role = "faculty" /\ users[u].isActive /\ users[u].department = d}

Holders(d, code) ==
  {u \in ActiveFacultyOf(d) : /\ users[u].departmentCode.key = CurrentKey
                              /\ users[u].departmentCode.pt = code}

\* The step in which request r, a verify-code request, reads the faculty and decides.
Decides(r) == reqs[r].op = "verify" /\ reqs[r].pc = "start" /\ reqs'[r].pc # "start"

Passed(q) == q.pc = "findStudent" \/ q.status = 200

\* C7: for a department with at least one active faculty principal, the check
\* passes if and only if an active faculty principal of that department holds
\* exactly the candidate code.
C7_VerifyIffActiveFacultyHoldsCode ==
  [][\A r \in Slots :
       Decides(r) /\ ActiveFacultyOf(reqs[r].body.department) # {}
         => (Passed(reqs'[r])
               <=> Holders(reqs[r].body.department, reqs[r].body.departmentCode) # {})]_vars

\* C7 witness: one request passed with f1's code and another one was refused for
\* the same code in lower case.
C7_Witness ==
  \E r, q \in Slots :
    /\ reqs[r].op = "verify" /\ reqs[r].status = 200
    /\ reqs[r].body.department = "CSE" /\ reqs[r].body.departmentCode = "CSE2024ABC"
    /\ reqs[q].op = "verify" /\ reqs[q].status = 401
    /\ reqs[q].body.department = "CSE" /\ reqs[q].body.departmentCode = "cse2024abc"

\* C8: "no faculty" (404) is reported exactly when the department has no active
\* faculty principal, and "invalid code" (401) exactly when it has some and none
\* holds the code: neither outcome is ever reported for the other.
C8_NoFacultyDistinctFromMismatch ==
  [][\A r \in Slots :
       Decides(r) =>
         LET none == ActiveFacultyOf(reqs[r].body.department) = {}
             mismatch == ~none /\ Holders(reqs[r].body.department, reqs[r].body.departmentCode) = {}
         IN /\ none <=> (reqs'[r].status = 404
                           /\ reqs'[r].message = "No faculty found for this department")
            /\ mismatch <=> (reqs'[r].status = 401
                               /\ reqs'[r].message = "Invalid department code")]_vars

\* C8 witness: after f2 was deactivated, a code was presented for ECE, which had
\* no active faculty left, and the answer was 404.
C8_Witness ==
  \E r \in Slots :
    /\ reqs[r].op = "verify" /\ reqs[r].status = 404
    /\ reqs[r].body.department = "ECE" /\ ~users["f2"].isActive

(***************************************************************************)
(* Faculty creating, updating and deleting folders.                        *)
(***************************************************************************)
NextFolder ==
  \E r \in 1 .. MaxFolderReq :
    \/ StartUpdate(r, {"f1", "f2"}, {1, 2}, {Undefined, "Graphs"}, {Undefined, "comment", "edit", "owner"})
    \/ StartCreate(r, {"f1", "f2"}, {Undefined, "edit"})
    \/ StartDelete(r, {"f1", "f2"}, {1, 2})
    \/ UpdateSteps(r)
    \/ CreateSteps(r)
    \/ DeleteSteps(r)

SpecFolder == Init /\ [][NextFolder]_vars

\* C5: every request Google receives carries the access token of the principal
\* the handler was acting for, however the handlers' steps interleave.
C5_CallsCarryOwnCredentials ==
  \A c \in providerCalls : c.cred.sub = c.by

(***************************************************************************)
(* Faculty updating their folders, other updates and deletions of the same *)
(* folders under way.                                                      *)
(***************************************************************************)
NextUpdate ==
  \E r \in 1 .. MaxFolderReq :
    \/ StartUpdate(r, {"f1", "f2"}, {1}, {Undefined, "Graphs"}, {Undefined, "edit", "owner"})
    \/ StartDelete(r, {"f1"}, {1})
    \/ UpdateSteps(r)
    \/ DeleteSteps(r)

SpecUpdate == Init /\ [][NextUpdate]_vars

\* The Drive call of update request r for the permission failed.
PermissionCallFailed(r) ==
  \E c \in providerCalls : c.req = r /\ c.op = "setFolderPermissions" /\ ~c.ok

\* C9: an update whose setFolderPermissions call failed is over and has reported an
\* error, and no step of an update that does not end in a reported success writes
\* anything to the Folder collection: neither permissions nor any other field.
C9_FailedPermissionUpdatePersistsNothing ==
  [][\A r \in Slots :
       reqs'[r].op = "update" =>
         /\ PermissionCallFailed(r)' => reqs'[r].pc = "done" /\ reqs'[r].status = 500
         /\ reqs'[r] # reqs[r] /\ reqs'[r].status # 200 => folders' = folders]_vars

\* C9 witness: an update that asked for another subject and another permission has
\* ended in an error after its Drive call failed, with the subject as it was.
C9_Witness ==
  \E r \in Slots :
    /\ reqs[r].op = "update" /\ PermissionCallFailed(r) /\ reqs[r].pc = "done"
    /\ reqs[r].body.subject = "Graphs" /\ folders[reqs[r].fid].subject = "Algorithms"
    /\ reqs[r].body.permissions = "edit" /\ folders[reqs[r].fid].permissions = "view"

\* C10: at the step in which a create or an update reports success, with no other
\* update of that folder under way, the folder's persisted permission level is the
\* one in force on Drive.
C10_LocalPermissionMatchesProvider ==
  [][\A r \in Slots :
       /\ reqs'[r].op \in {"create", "update"}
       /\ reqs[r].pc # "done" /\ reqs'[r].pc = "done" /\ reqs'[r].status \in {200, 201}
       /\ \A q \in Slots \ {r} : reqs[q].op = "update" /\ reqs[q].fid = reqs'[r].fid => ~InFlight(q)
       => permissionMap(folders'[reqs'[r].fid].permissions)
            = drive'[folders'[reqs'[r].fid].driveFolderId].role]_vars

(***************************************************************************)
(* authController.refreshGoogleToken and googleCallback, with the issuer   *)
(* calls of config/googleAuth.  The issuer numbers the access tokens it    *)
(* issues: a larger n is a later token.  expiry_date is the instant of the  *)
(* response plus the lifetime the issuer grants (expires_in).              *)
(***************************************************************************)
AdminEmail == "a1"

\* No more token requests than the issuer answers within the bound.
IssuerHasRoom ==
  issued + Cardinality({q \in Slots : reqs[q].op \in {"refresh", "login"} /\ InFlight(q)}) < MaxIssued

\* POST /api/auth/refresh-token (protect, authorize('faculty'))
StartRefresh(r, who) ==
  /\ reqs[r].pc = "idle"
  /\ IssuerHasRoom
  /\ \E u \in who \cap Faculty : reqs' = Begin(r, "refresh", u, 0, NoBody)
  /\ UNCHANGED <<users, folders, logs, drive, providerCalls, oauth2Client, issued, clock>>

\* refreshGoogleToken_findById without the test of user.googleTokens.refreshToken.
refreshGoogleToken_findByIdUnchecked(r) ==
  /\ reqs[r].op = "refresh" /\ reqs[r].pc = "start"
  /\ LET user == users[reqs[r].user] IN
       /\ reqs' = [reqs EXCEPT ![r].udoc = user, ![r].tokens = user.googleTokens,
                               ![r].pc = "issuer"]
       /\ oauth2Client' = [NoTokens EXCEPT !.refreshToken = user.googleTokens.refreshToken]
  /\ UNCHANGED <<users, folders, logs, drive, providerCalls, issued, clock>>

\* await User.findById, the 400 without a refresh token, then refreshAccessToken up
\* to its await: setCredentials({refresh_token}) and the request to the issuer,
\* which takes the refresh token from the client in the same turn.
refreshGoogleToken_findById(r) ==
  /\ reqs[r].op = "refresh" /\ reqs[r].pc = "start"
  /\ LET user == users[reqs[r].user] IN
       IF user.googleTokens.refreshToken = NoToken
         THEN /\ reqs' = Respond(r, 400, "No refresh token available. Please re-authenticate.", NoData)
              /\ oauth2Client' = oauth2Client
         ELSE /\ reqs' = [reqs EXCEPT ![r].udoc = user, ![r].tokens = user.googleTokens,
                                      ![r].pc = "issuer"]
              /\ oauth2Client' = [NoTokens EXCEPT !.refreshToken = user.googleTokens.refreshToken]
  /\ UNCHANGED <<users, folders, logs, drive, providerCalls, issued, clock>>

\* refreshGoogleToken_refreshAccessToken with a rejected refresh sent to the issuer
\* again instead of ending the request.
refreshGoogleToken_refreshAccessTokenRetrying(r) ==
  /\ reqs[r].op = "refresh" /\ reqs[r].pc = "issuer"
  /\ \E ok \in BOOLEAN :
       IF ok
         THEN LET newTokens == [accessToken |-> Token(reqs[r].tokens.refreshToken.sub, issued + 1),
                                refreshToken |-> oauth2Client.refreshToken,
                                expiryDate |-> clock + TokenLifetime]
              IN /\ issued' = issued + 1
                 /\ oauth2Client' = newTokens
                 /\ reqs' = [reqs EXCEPT ![r].tokens = newTokens,
                                         ![r].udoc.googleTokens.accessToken = newTokens.accessToken,
                                         ![r].udoc.googleTokens.expiryDate = newTokens.expiryDate,
                                         ![r].modified = {"accessToken", "expiryDate"},
                                         ![r].pc = "save"]
         ELSE /\ reqs[r].message = ""
              /\ issued' = issued
              /\ oauth2Client' = oauth2Client
              /\ reqs' = [reqs EXCEPT ![r].message = "retry"]
  /\ UNCHANGED <<users, folders, logs, drive, providerCalls, clock>>

\* oauth2Client.refreshAccessToken() answers.  The issuer rejects the refresh token
\* (500), or issues the next access token for the principal of the refresh token;
\* the library keeps it in the shared client; the handler assigns accessToken and
\* expiryDate on its copy of the user and calls save().
refreshGoogleToken_refreshAccessToken(r) ==
  /\ reqs[r].op = "refresh" /\ reqs[r].pc = "issuer"
  /\ \E ok \in BOOLEAN :
       IF ok
         THEN LET newTokens == [accessToken |-> Token(reqs[r].tokens.refreshToken.sub, issued + 1),
                                refreshToken |-> oauth2Client.refreshToken,
                                expiryDate |-> clock + TokenLifetime]
              IN /\ issued' = issued + 1
                 /\ oauth2Client' = newTokens
                 /\ reqs' = [reqs EXCEPT ![r].tokens = newTokens,
                                         ![r].udoc.googleTokens.accessToken = newTokens.accessToken,
                                         ![r].udoc.googleTokens.expiryDate = newTokens.expiryDate,
                                         ![r].modified = {"accessToken", "expiryDate"},
                                         ![r].pc = "save"]
         ELSE /\ issued' = issued
              /\ oauth2Client' = oauth2Client
              /\ reqs' = Respond(r, 500, "Error refreshing token", NoData)
  /\ UNCHANGED <<users, folders, logs, drive, providerCalls, clock>>

\* user.save() of the loaded document doc with paths of googleTokens modified: the
\* hook, then $set of those paths.
SaveTokens(id, doc, modified) ==
  [SaveUser(id, doc, {}, 1) EXCEPT
     ![id].googleTokens = [p \in DOMAIN users[id].googleTokens |->
                             IF p \in modified THEN doc.googleTokens[p]
                             ELSE users[id].googleTokens[p]]]

\* await user.save(), then the 200.
refreshGoogleToken_save(r) ==
  /\ reqs[r].op = "refresh" /\ reqs[r].pc = "save"
  /\ users' = SaveTokens(reqs[r].user, reqs[r].udoc, reqs[r].modified)
  /\ reqs' = Respond(r, 200, "Token refreshed successfully", NoData)
  /\ UNCHANGED <<folders, logs, drive, providerCalls, oauth2Client, issued, clock>>

\* GET /api/auth/google/callback?code=...: the code of a consent given by the
\* Google account u.
StartLogin(r, who) ==
  /\ reqs[r].pc = "idle"
  /\ IssuerHasRoom
  /\ \E u \in who :
       reqs' = [reqs EXCEPT ![r] = [Idle EXCEPT !.op = "login", !.pc = "start", !.user = u]]
  /\ UNCHANGED <<users, folders, logs, drive, providerCalls, oauth2Client, issued, clock>>

\* res.redirect(.../auth/error?message=...) of googleCallback's catch.
RedirectError(r, msg) == Respond(r, 302, msg, NoData)

\* await getTokens(code): the issuer rejects the code, or issues tokens for the
\* account (a refresh token comes with them or not); then getUserInfo up to its
\* request: setCredentials({access_token}) on the shared client.
googleCallback_getTokens(r) ==
  /\ reqs[r].op = "login" /\ reqs[r].pc = "start"
  /\ \E ok \in BOOLEAN, withRefresh \in BOOLEAN :
       IF ok
         THEN LET tokens == [accessToken |-> Token(reqs[r].user, issued + 1),
                             refreshToken |-> IF withRefresh THEN Token(reqs[r].user, issued + 1)
                                              ELSE NoToken,
                             expiryDate |-> clock + TokenLifetime]
              IN /\ issued' = issued + 1
                 /\ oauth2Client' = [NoTokens EXCEPT !.accessToken = tokens.accessToken]
                 /\ reqs' = [reqs EXCEPT ![r].tokens = tokens, ![r].pc = "userinfo"]
         ELSE /\ ~withRefresh
              /\ issued' = issued
              /\ oauth2Client' = oauth2Client
              /\ reqs' = RedirectError(r, "invalid_grant")
  /\ UNCHANGED <<users, folders, logs, drive, providerCalls, clock>>

\* The account a request made with the shared client's credentials speaks for: the
\* owner of its access token or, without one, of the refresh token the library
\* obtains an access token with.
ClientAccount ==
  IF oauth2Client.accessToken # NoToken THEN oauth2Client.accessToken.sub
  ELSE oauth2Client.refreshToken.sub

\* oauth2.userinfo.get() answers with the profile of the account of the credentials
\* that came with it; then await User.findOne({email}).
googleCallback_getUserInfo(r) ==
  /\ reqs[r].op = "login" /\ reqs[r].pc = "userinfo"
  /\ \E ok \in BOOLEAN :
       /\ providerCalls' = providerCalls \cup {ProviderCall(r, "getUserInfo", ok)}
       /\ IF ok /\ ClientAccount # "none"
            THEN reqs' = [reqs EXCEPT ![r].target = ClientAccount, ![r].pc = "findOne"]
            ELSE reqs' = RedirectError(r, "userinfo failed")
  /\ UNCHANGED <<users, folders, logs, drive, oauth2Client, issued, clock>>

\* googleCallback_findOne with googleTokens.refreshToken = tokens.refresh_token for
\* an existing user too, as for a new one.
googleCallback_findOneReplacing(r) ==
  /\ reqs[r].op = "login" /\ reqs[r].pc = "findOne"
  /\ LET email == reqs[r].target
         tokens == reqs[r].tokens
     IN IF email \in DOMAIN users
          THEN reqs' = [reqs EXCEPT
                    ![r].udoc = [users[email] EXCEPT !.googleTokens = tokens],
                    ![r].modified = {"accessToken", "refreshToken", "expiryDate"},
                    ![r].pc = "save"]
          ELSE reqs' = [reqs EXCEPT
                 ![r].udoc = UserDoc(IF email = AdminEmail THEN "admin" ELSE "student",
                                     Undefined, NoCode, TRUE, tokens),
                 ![r].pc = "saveNew"]
  /\ UNCHANGED <<users, folders, logs, drive, providerCalls, oauth2Client, issued, clock>>

\* User.findOne answers.  An existing user gets googleTokens = {access_token,
\* refresh_token || user.googleTokens.refreshToken, expiry_date} and save() is
\* called; otherwise new User({...}) with role admin for ADMIN_EMAIL, else student.
googleCallback_findOne(r) ==
  /\ reqs[r].op = "login" /\ reqs[r].pc = "findOne"
  /\ LET email == reqs[r].target
         tokens == reqs[r].tokens
     IN IF email \in DOMAIN users
          THEN LET kept == IF tokens.refreshToken # NoToken THEN tokens.refreshToken
                           ELSE users[email].googleTokens.refreshToken
               IN reqs' = [reqs EXCEPT
                    ![r].udoc = [users[email] EXCEPT
                                   !.googleTokens = [tokens EXCEPT !.refreshToken = kept]],
                    ![r].modified = {"accessToken", "refreshToken", "expiryDate"},
                    ![r].pc = "save"]
          ELSE reqs' = [reqs EXCEPT
                 ![r].udoc = UserDoc(IF email = AdminEmail THEN "admin" ELSE "student",
                                     Undefined, NoCode, TRUE, tokens),
                 ![r].pc = "saveNew"]
  /\ UNCHANGED <<users, folders, logs, drive, providerCalls, oauth2Client, issued, clock>>

\* await user.save() of the existing user.
googleCallback_save(r) ==
  /\ reqs[r].op = "login" /\ reqs[r].pc = "save"
  /\ users' = SaveTokens(reqs[r].target, reqs[r].udoc, reqs[r].modified)
  /\ reqs' = [reqs EXCEPT ![r].pc = "log"]
  /\ UNCHANGED <<folders, logs, drive, providerCalls, oauth2Client, issued, clock>>

\* await user.save() of the new user: userSchema requires a department of a student
\* (and of a faculty member), and the new document has none, so only the admin's
\* document passes validation; a second insert for the same email is rejected by
\* the unique index.
googleCallback_saveNew(r) ==
  /\ reqs[r].op = "login" /\ reqs[r].pc = "saveNew"
  /\ IF reqs[r].udoc.role = "admin" /\ reqs[r].target \notin DOMAIN users
       THEN /\ users' = users @@ (reqs[r].target :> [reqs[r].udoc EXCEPT !.department = ""])
            /\ reqs' = [reqs EXCEPT ![r].pc = "log"]
       ELSE /\ users' = users
            /\ reqs' = RedirectError(r, "User validation failed")
  /\ UNCHANGED <<folders, logs, drive, providerCalls, oauth2Client, issued, clock>>

\* await createLog(..., 'login', ...), then the redirect with the JWT.
googleCallback_createLog(r) ==
  /\ reqs[r].op = "login" /\ reqs[r].pc = "log"
  /\ \E saved \in BOOLEAN : logs' = createLog(reqs[r].target, "login", 0, saved)
  /\ reqs' = Respond(r, 302, "token", NoData)
  /\ UNCHANGED <<users, folders, drive, providerCalls, oauth2Client, issued, clock>>

RefreshSteps(r) ==
  \/ refreshGoogleToken_findById(r)
  \/ refreshGoogleToken_refreshAccessToken(r)
  \/ refreshGoogleToken_save(r)

LoginSteps(r) ==
  \/ googleCallback_getTokens(r)
  \/ googleCallback_getUserInfo(r)
  \/ googleCallback_findOne(r)
  \/ googleCallback_save(r)
  \/ googleCallback_saveNew(r)
  \/ googleCallback_createLog(r)

(***************************************************************************)
(* Faculty refreshing their tokens and logging in again, and a Google      *)
(* account without a user record logging in.                               *)
(***************************************************************************)
NextToken ==
  \E r \in 1 .. MaxTokenReq :
    \/ StartRefresh(r, {"f1", "f2"})
    \/ StartLogin(r, {"f1", "f2", "g1"})
    \/ RefreshSteps(r)
    \/ LoginSteps(r)

SpecToken == Init /\ [][NextToken]_vars

\* C3: two refresh requests for one principal that are under way together never
\* both hold an issuer response of their own: the issuer was called once and both
\* work with the same fresh bundle.
C3_SingleFlightRefresh ==
  \A r, q \in Slots :
    /\ r # q
    /\ reqs[r].op = "refresh" /\ reqs[q].op = "refresh" /\ reqs[r].user = reqs[q].user
    /\ reqs[r].pc = "save" /\ reqs[q].pc = "save"
    => reqs[r].tokens = reqs[q].tokens

\* The principal whose record a completed token request wrote.
Wrote(q, u) ==
  /\ reqs[q].pc = "done"
  /\ \/ reqs[q].op = "refresh" /\ reqs[q].status = 200 /\ reqs[q].user = u
     \/ reqs[q].op = "login" /\ reqs[q].status = 302 /\ reqs[q].message = "token"
        /\ reqs[q].target = u

\* C4: once no refresh and no login is under way, the access token and expiry
\* stored for a principal are at least as recent as every issuer response that
\* a completed refresh or login wrote to that principal's record: no earlier
\* response written later has won over a fresher one.
C4_NoStaleAccessToken ==
  (\A q \in Slots : ~(InFlight(q) /\ reqs[q].op \in {"refresh", "login"}))
  => \A u \in DOMAIN users : \A q \in Slots :
       Wrote(q, u) => /\ users[u].googleTokens.accessToken.n >= reqs[q].tokens.accessToken.n
                      /\ users[u].googleTokens.expiryDate >= reqs[q].tokens.expiryDate

(***************************************************************************)
(* Faculty creating folders and deleting folders, their own and others'.   *)
(***************************************************************************)
NextLifecycle ==
  \E r \in 1 .. MaxFolderReq :
    \/ StartDelete(r, {"f1", "f2"}, {1, 2})
    \/ StartCreate(r, {"f1"}, {Undefined, "edit"})
    \/ DeleteSteps(r)
    \/ CreateSteps(r)

SpecLifecycle == Init /\ [][NextLifecycle]_vars

\* Request r is a delete of an existing folder by someone who is not its owner.
NotOwner(r) ==
  /\ reqs[r].op = "delete" /\ reqs[r].fid \in DOMAIN folders
  /\ folders[reqs[r].fid].facultyId # reqs[r].user

\* C11: a delete by a requester who is not the folder's owner takes one step, the
\* 403, and that step changes no folder (active flag and every other field as they
\* were), makes no Drive call and appends no audit event.
C11_NonOwnerDeleteChangesNothing ==
  [][\A r \in Slots :
       NotOwner(r) /\ reqs'[r] # reqs[r]
         => /\ reqs'[r].pc = "done" /\ reqs'[r].status = 403
            /\ reqs'[r].message = "Not authorized to delete this folder"
            /\ folders' = folders /\ drive' = drive
            /\ providerCalls' = providerCalls /\ logs' = logs]_vars

\* C11 witness: f2 asked to delete f1's folder and got the 403; the folder is active.
C11_Witness ==
  \E r \in Slots :
    /\ reqs[r].op = "delete" /\ reqs[r].user = "f2" /\ reqs[r].fid = 1
    /\ reqs[r].status = 403 /\ folders[1].isActive /\ ~drive[1].deleted

\* The Drive call of delete request r failed.
DeleteCallFailed(r) ==
  \E c \in providerCalls : c.req = r /\ c.op = "deleteFolder" /\ ~c.ok

\* The step in which request r sends its response after createLog.
Reports(r) == reqs[r].pc = "log" /\ reqs'[r].pc = "done"

CreateCallFailed(r) ==
  \E c \in providerCalls : c.req = r /\ c.op = "createFolder" /\ ~c.ok

\* C14: the step in which createFolder fails ends the create with a 500 that names
\* the provider, and neither that step nor any other step of that request inserts
\* a folder record or appends an audit event.
C14_FailedProviderCreateLeavesNoRecord ==
  [][\A r \in Slots :
       reqs'[r].op = "create" /\ CreateCallFailed(r)'
         => /\ reqs'[r].pc = "done" /\ reqs'[r].status = 500
            /\ reqs'[r].message = "Failed to create folder in Google Drive"
            /\ reqs'[r] # reqs[r] => folders' = folders /\ logs' = logs]_vars

\* C14 witness: a create ended in the 500 after Drive refused it, with the two
\* folders of the start and an empty log.
C14_Witness ==
  \E r \in Slots :
    /\ reqs[r].op = "create" /\ CreateCallFailed(r) /\ reqs[r].status = 500
    /\ DOMAIN folders = {1, 2} /\ logs = <<>>

(***************************************************************************)
(* The listing queries: folderController.getMyFolders, studentController's *)
(* getDepartments, getFacultyList and getSemesterMaterials, and            *)
(* adminController.getAllFolders.  Each answers with what one find,        *)
(* distinct or aggregate returned.                                         *)
(***************************************************************************)
\* GET /api/folders/my-folders
StartMyFolders(r, who) ==
  /\ reqs[r].pc = "idle"
  /\ \E u \in who \cap Faculty : reqs' = Begin(r, "myFolders", u, 0, NoBody)
  /\ UNCHANGED <<users, folders, logs, drive, providerCalls, oauth2Client, issued, clock>>

\* getMyFolders with Folder.find({facultyId: req.user._id}): no isActive filter.
getMyFoldersIncludingInactive(r) ==
  /\ reqs[r].op = "myFolders" /\ reqs[r].pc = "start"
  /\ LET found == {f \in DOMAIN folders : folders[f].facultyId = reqs[r].user}
     IN reqs' = Respond(r, 200, "", [NoData EXCEPT !.folders = found])
  /\ UNCHANGED <<users, folders, logs, drive, providerCalls, oauth2Client, issued, clock>>

\* Folder.find({facultyId: req.user._id, isActive: true})
getMyFolders(r) ==
  /\ reqs[r].op = "myFolders" /\ reqs[r].pc = "start"
  /\ LET found == {f \in DOMAIN folders :
                     folders[f].facultyId = reqs[r].user /\ folders[f].isActive}
     IN reqs' = Respond(r, 200, "", [NoData EXCEPT !.folders = found])
  /\ UNCHANGED <<users, folders, logs, drive, providerCalls, oauth2Client, issued, clock>>

\* GET /api/students/departments, /faculty?department=..., /semesters/:department
StartBrowse(r, op, who, depts) ==
  /\ reqs[r].pc = "idle"
  /\ \E u \in who \cap Students, d \in depts :
       reqs' = Begin(r, op, u, 0, [NoBody EXCEPT !.department = d])
  /\ UNCHANGED <<users, folders, logs, drive, providerCalls, oauth2Client, issued, clock>>

\* Folder.distinct('department', {isActive: true})
getDepartments(r) ==
  /\ reqs[r].op = "departments" /\ reqs[r].pc = "start"
  /\ LET found == {f \in DOMAIN folders : folders[f].isActive}
     IN reqs' = Respond(r, 200, "",
                        [NoData EXCEPT !.departments = {folders[f].department : f \in found}])
  /\ UNCHANGED <<users, folders, logs, drive, providerCalls, oauth2Client, issued, clock>>

\* Folder.aggregate([{$match: {isActive: true, department?}}, {$group: {_id:
\* '$facultyId', ..., totalFolders: {$sum: 1}}}]): one entry per faculty member
\* with a matching folder, with the number of those folders.
getFacultyList(r) ==
  /\ reqs[r].op = "faculty" /\ reqs[r].pc = "start"
  /\ LET d == reqs[r].body.department
         found == {f \in DOMAIN folders :
                     /\ folders[f].isActive
                     /\ (d # Undefined => folders[f].department = d)}
         group(u) == {f \in found : folders[f].facultyId = u}
     IN reqs' = Respond(r, 200, "",
                        [NoData EXCEPT !.faculty =
                           {[id |-> folders[f].facultyId,
                             totalFolders |-> Cardinality(group(folders[f].facultyId))] : f \in found}])
  /\ UNCHANGED <<users, folders, logs, drive, providerCalls, oauth2Client, issued, clock>>

\* Folder.aggregate([{$match: {department, isActive: true}}, {$group: ...}]): the
\* ids pushed into the subjects of the groups.
getSemesterMaterials(r) ==
  /\ reqs[r].op = "semesters" /\ reqs[r].pc = "start"
  /\ LET found == {f \in DOMAIN folders :
                     folders[f].isActive /\ folders[f].department = reqs[r].body.department}
     IN reqs' = Respond(r, 200, "", [NoData EXCEPT !.folders = found])
  /\ UNCHANGED <<users, folders, logs, drive, providerCalls, oauth2Client, issued, clock>>

\* GET /api/admin/folders?department=...&isActive=... (page 1, limit 50)
StartAllFolders(r, who, depts, actives) ==
  /\ reqs[r].pc = "idle"
  /\ \E u \in who \cap Admins, d \in depts, a \in actives :
       reqs' = Begin(r, "allFolders", u, 0, [NoBody EXCEPT !.department = d, !.isActive = a])
  /\ UNCHANGED <<users, folders, logs, drive, providerCalls, oauth2Client, issued, clock>>

\* The query of getAllFolders: department if given, isActive === 'true' if given.
allFoldersQuery(body) ==
  {f \in DOMAIN folders :
     /\ (body.department # Undefined => folders[f].department = body.department)
     /\ (body.isActive # Undefined => folders[f].isActive = (body.isActive = "true"))}

\* await Folder.find(query)...: the first page, which holds every match while there
\* are at most 50.
getAllFolders_find(r) ==
  /\ reqs[r].op = "allFolders" /\ reqs[r].pc = "start"
  /\ reqs' = [reqs EXCEPT ![r].data.folders = allFoldersQuery(reqs[r].body), ![r].pc = "count"]
  /\ UNCHANGED <<users, folders, logs, drive, providerCalls, oauth2Client, issued, clock>>

\* await Folder.countDocuments(query), then the 200.
getAllFolders_countDocuments(r) ==
  /\ reqs[r].op = "allFolders" /\ reqs[r].pc = "count"
  /\ reqs' = Respond(r, 200, "",
                     [reqs[r].data EXCEPT !.total = Cardinality(allFoldersQuery(reqs[r].body))])
  /\ UNCHANGED <<users, folders, logs, drive, providerCalls, oauth2Client, issued, clock>>

BrowseSteps(r) ==
  \/ getMyFolders(r)
  \/ getMaterials(r)
  \/ getDepartments(r)
  \/ getFacultyList(r)
  \/ getSemesterMaterials(r)
  \/ getAllFolders_find(r)
  \/ getAllFolders_countDocuments(r)

(***************************************************************************)
(* A faculty member deleting a folder while the folder lists are read.     *)
(***************************************************************************)
\* The delete is request 1; the readers are the other requests, which arrive
\* before, during or after it.
NextBrowse ==
  \/ StartDelete(1, {"f1"}, {1})
  \/ DeleteSteps(1)
  \/ \E r \in Slots \ {1} :
       \/ StartMyFolders(r, {"f1"})
       \/ StartMaterials(r, {"s1"})
       \/ StartBrowse(r, "departments", {"s1"}, {Undefined})
       \/ StartBrowse(r, "faculty", {"s1"}, {Undefined, "CSE"})
       \/ StartBrowse(r, "semesters", {"s1"}, {"CSE"})
       \/ StartAllFolders(r, {"a1"}, {Undefined, "CSE"}, {Undefined, "true", "false"})
       \/ BrowseSteps(r)

SpecBrowse == Init /\ [][NextBrowse]_vars

\* The soft-deleted folders.
SoftDeleted == {f \in DOMAIN folders : ~folders[f].isActive}

\* Request r gets its query's result in this step.
Answers(r, op) == reqs[r].op = op /\ reqs[r].pc = "start" /\ reqs'[r].pc # "start"

\* C13: a soft-deleted folder stays a record and stays soft-deleted; every result of
\* the owner's list, of the materials, departments, faculty and semester queries
\* read after the soft-delete leaves it out (its link, its id, its department and
\* its owner unless another active folder brings them in, its count); and the
\* admin's folder query returns it whenever its filters admit inactive folders.
C13_SoftDeletedHiddenButKept ==
  [][/\ \A f \in SoftDeleted : f \in DOMAIN folders' /\ ~folders'[f].isActive
     /\ \A r \in Slots :
          /\ Answers(r, "myFolders") \/ Answers(r, "semesters")
               => reqs'[r].data.folders \cap SoftDeleted = {}
          /\ Answers(r, "materials")
               => \A f \in SoftDeleted : folders[f].driveFolderLink \notin reqs'[r].data.links
          /\ Answers(r, "departments")
               => reqs'[r].data.departments
                    = {folders[f].department : f \in DOMAIN folders \ SoftDeleted}
          /\ Answers(r, "faculty")
               => \A e \in reqs'[r].data.faculty :
                    e.totalFolders = Cardinality({f \in DOMAIN folders \ SoftDeleted :
                        /\ folders[f].facultyId = e.id
                        /\ reqs[r].body.department \in {Undefined, folders[f].department}})
          /\ Answers(r, "allFolders")
               => \A f \in SoftDeleted :
                    /\ reqs[r].body.isActive # "true"
                    /\ reqs[r].body.department \in {Undefined, folders[f].department}
                    => f \in reqs'[r].data.folders]_vars

\* C13 witness: with folder 1 soft-deleted, its owner's list came back empty and
\* the admin's query for inactive folders returned it.
C13_Witness ==
  \E r, q \in Slots :
    /\ ~folders[1].isActive
    /\ reqs[r].op = "myFolders" /\ reqs[r].pc = "done" /\ reqs[r].data.folders = {}
    /\ reqs[q].op = "allFolders" /\ reqs[q].pc = "done" /\ reqs[q].body.isActive = "false"
    /\ reqs[q].data.folders = {1}

(***************************************************************************)
(* Students opening a folder that its owner deletes, and one that does not *)
(* exist.  The delete is request 1.                                        *)
(***************************************************************************)
NextInactive ==
  \/ StartDelete(1, {"f1"}, {1})
  \/ DeleteSteps(1)
  \/ \E r \in Slots \ {1} :
       \/ StartAccess(r, {"s1", "s2"}, {1, MaxFolders})
       \/ AccessSteps(r)

SpecInactive == Init /\ [][NextInactive]_vars

\* C15: when accessFolder reads a folder id that has no record it answers 404
\* 'Folder not found', and when it reads a soft-deleted folder it answers 400 'This
\* folder is no longer available'; neither answer is given in the other case or for
\* an active folder; in both cases the request is over with that step, which writes
\* no folder (viewCount and lastAccessed as they were), appends no event and
\* returns no link.
C15_MissingAndInactiveAreDistinctAndInert ==
  [][\A r \in Slots :
       Answers(r, "access") =>
         LET fid == reqs[r].fid
             missing == fid \notin DOMAIN folders
             inactive == fid \in DOMAIN folders /\ ~folders[fid].isActive
         IN /\ missing <=> (reqs'[r].status = 404 /\ reqs'[r].message = "Folder not found")
            /\ inactive <=> (reqs'[r].status = 400
                               /\ reqs'[r].message = "This folder is no longer available")
            /\ missing \/ inactive
                 => /\ reqs'[r].pc = "done" /\ reqs'[r].data.link = 0
                    /\ folders' = folders /\ logs' = logs]_vars

\* C15 witness: one student was told that folder 1, soft-deleted with no view
\* counted, is no longer available, and another that the unknown folder was not found.
C15_Witness ==
  \E r, q \in Slots :
    /\ reqs[r].op = "access" /\ reqs[r].fid = 1 /\ reqs[r].status = 400
    /\ ~folders[1].isActive /\ folders[1].viewCount = 0 /\ folders[1].lastAccessed = 0
    /\ reqs[q].op = "access" /\ reqs[q].fid = MaxFolders /\ reqs[q].status = 404

(***************************************************************************)
(* authController.logout and updateProfile, adminController.changeUserRole *)
(***************************************************************************)
\* The accounts that pass protect.
ActiveUsers == {u \in DOMAIN users : users[u].isActive}

\* POST /api/auth/logout: the handler starts with its call of createLog.
StartLogout(r, who) ==
  /\ reqs[r].pc = "idle"
  /\ \E u \in who \cap ActiveUsers :
       reqs' = [Begin(r, "logout", u, 0, NoBody) EXCEPT ![r].pc = "log"]
  /\ UNCHANGED <<users, folders, logs, drive, providerCalls, oauth2Client, issued, clock>>

\* await createLog(..., 'logout', ...), then the 200.
logout_createLog(r) ==
  /\ reqs[r].op = "logout" /\ reqs[r].pc = "log"
  /\ \E saved \in BOOLEAN : logs' = createLog(reqs[r].user, "logout", 0, saved)
  /\ reqs' = Respond(r, 200, "Logged out successfully", NoData)
  /\ UNCHANGED <<users, folders, drive, providerCalls, oauth2Client, issued, clock>>

\* PUT /api/auth/profile (validateUserUpdate: department, if given, is of the enum)
StartProfile(r, who, depts) ==
  /\ reqs[r].pc = "idle"
  /\ \E u \in who \cap ActiveUsers, d \in depts :
       reqs' = Begin(r, "profile", u, 0, [NoBody EXCEPT !.department = d])
  /\ UNCHANGED <<users, folders, logs, drive, providerCalls, oauth2Client, issued, clock>>

\* await User.findById, "if (department) user.department = department", and
\* save() is called.
updateProfile_findById(r) ==
  /\ reqs[r].op = "profile" /\ reqs[r].pc = "start"
  /\ LET user == users[reqs[r].user]
         d == reqs[r].body.department
         doc == IF d \notin {Undefined, ""} THEN [user EXCEPT !.department = d] ELSE user
     IN reqs' = [reqs EXCEPT ![r].udoc = doc,
                             ![r].modified = IF doc.department # user.department
                                               THEN {"department"} ELSE {},
                             ![r].pc = "save"]
  /\ UNCHANGED <<users, folders, logs, drive, providerCalls, oauth2Client, issued, clock>>

\* await user.save()
updateProfile_save(r) ==
  /\ reqs[r].op = "profile" /\ reqs[r].pc = "save"
  /\ users' = SaveUser(reqs[r].user, reqs[r].udoc, reqs[r].modified, 1)
  /\ reqs' = [reqs EXCEPT ![r].pc = "log"]
  /\ UNCHANGED <<folders, logs, drive, providerCalls, oauth2Client, issued, clock>>

\* await createLog(..., 'update_profile', ...), then the 200.
updateProfile_createLog(r) ==
  /\ reqs[r].op = "profile" /\ reqs[r].pc = "log"
  /\ \E saved \in BOOLEAN : logs' = createLog(reqs[r].user, "update_profile", 0, saved)
  /\ reqs' = Respond(r, 200, "Profile updated successfully", NoData)
  /\ UNCHANGED <<users, folders, drive, providerCalls, oauth2Client, issued, clock>>

\* PUT /api/admin/users/:id/role (validateRoleChange: role is of the enum)
StartChangeRole(r, targets, roles) ==
  /\ reqs[r].pc = "idle"
  /\ \E u \in Admins, t \in targets, role \in roles :
       reqs' = [Begin(r, "changeRole", u, 0, [NoBody EXCEPT !.role = role]) EXCEPT ![r].target = t]
  /\ UNCHANGED <<users, folders, logs, drive, providerCalls, oauth2Client, issued, clock>>

\* await User.findById(id), the 404, the 400 for the caller's own account,
\* user.role = role, and save() is called.
changeUserRole_findById(r) ==
  /\ reqs[r].op = "changeRole" /\ reqs[r].pc = "start"
  /\ LET t == reqs[r].target IN
       IF t \notin DOMAIN users
         THEN reqs' = Respond(r, 404, "User not found", NoData)
       ELSE IF t = reqs[r].user
         THEN reqs' = Respond(r, 400, "Cannot change your own role", NoData)
       ELSE reqs' = [reqs EXCEPT ![r].udoc = [users[t] EXCEPT !.role = reqs[r].body.role],
                                 ![r].modified = IF users[t].role # reqs[r].body.role
                                                   THEN {"role"} ELSE {},
                                 ![r].pc = "save"]
  /\ UNCHANGED <<users, folders, logs, drive, providerCalls, oauth2Client, issued, clock>>

\* The outcomes of userSchema's required validators on save(): departmentCode is
\* required of a faculty member, and a document without one fails; department is
\* required of a student and of a faculty member, and whether the validator runs
\* on an unmodified empty department depends on how the document was stored.
ValidationOutcomes(doc) ==
  IF doc.role = "faculty" /\ doc.departmentCode = NoCode THEN {FALSE}
  ELSE IF doc.role \in {"student", "faculty"} /\ doc.department = "" THEN {TRUE, FALSE}
  ELSE {TRUE}

\* await user.save(): a validation error goes to the catch (500).
changeUserRole_save(r) ==
  /\ reqs[r].op = "changeRole" /\ reqs[r].pc = "save"
  /\ \E valid \in ValidationOutcomes(reqs[r].udoc) :
       IF valid
         THEN /\ users' = SaveUser(reqs[r].target, reqs[r].udoc, reqs[r].modified, 1)
              /\ reqs' = [reqs EXCEPT ![r].pc = "log"]
         ELSE /\ users' = users
              /\ reqs' = Respond(r, 500, "Error changing user role", NoData)
  /\ UNCHANGED <<folders, logs, drive, providerCalls, oauth2Client, issued, clock>>

\* await createLog(..., 'change_role', ...), then the 200.
changeUserRole_createLog(r) ==
  /\ reqs[r].op = "changeRole" /\ reqs[r].pc = "log"
  /\ \E saved \in BOOLEAN : logs' = createLog(reqs[r].user, "change_role", 0, saved)
  /\ reqs' = Respond(r, 200, "User role updated successfully", NoData)
  /\ UNCHANGED <<users, folders, drive, providerCalls, oauth2Client, issued, clock>>

ProfileSteps(r) ==
  \/ updateProfile_findById(r)
  \/ updateProfile_save(r)
  \/ updateProfile_createLog(r)

ChangeRoleSteps(r) ==
  \/ changeUserRole_findById(r)
  \/ changeUserRole_save(r)
  \/ changeUserRole_createLog(r)

(***************************************************************************)
(* The operations that call createLog, by every kind of principal, one     *)
(* request at a time.                                                      *)
(***************************************************************************)
MaxAuditReq == 2

\* No request is being handled: the requests of this scenario come one after the
\* other.
Quiet == \A q \in Slots : ~InFlight(q)

NextAudit ==
  \E r \in 1 .. MaxAuditReq :
    \/ Quiet /\ StartLogin(r, {"f1", "g1"})
    \/ Quiet /\ StartLogout(r, {"f1"})
    \/ Quiet /\ StartCreate(r, {"f1"}, {Undefined})
    \/ Quiet /\ StartDelete(r, {"f1"}, {1})
    \/ Quiet /\ StartAccess(r, {"s2"}, {2})
    \/ Quiet /\ StartProfile(r, {"s2"}, {"ECE"})
    \/ Quiet /\ StartChangeRole(r, {"s2"}, {"admin", "faculty"})
    \/ Quiet /\ StartAdmin(r, "deactivate", {"f2"}, {Undefined})
    \/ Quiet /\ StartAdmin(r, "activate", {"f2"}, {Undefined})
    \/ Quiet /\ StartAdmin(r, "updateCode", {"f3"}, {"cse2024abc"})
    \/ LoginSteps(r)
    \/ logout_createLog(r)
    \/ CreateSteps(r)
    \/ DeleteSteps(r)
    \/ AccessSteps(r)
    \/ ProfileSteps(r)
    \/ ChangeRoleSteps(r)
    \/ AdminSteps(r)

SpecAudit == Init /\ [][NextAudit]_vars

(***************************************************************************)
(* Every operation that writes to the User or the Folder collection.       *)
(***************************************************************************)
NextWrites ==
  \E r \in 1 .. MaxAuditReq :
    \/ StartLogin(r, {"f1", "g1"})
    \/ StartRefresh(r, {"f1"})
    \/ StartCreate(r, {"f1"}, {Undefined})
    \/ StartUpdate(r, {"f1"}, {1}, {"Graphs"}, {"edit"})
    \/ StartDelete(r, {"f1"}, {1})
    \/ StartAccess(r, {"s2"}, {2})
    \/ StartVerify(r, {"s1"}, {"ECE2024XYZ"})
    \/ StartProfile(r, {"s2"}, {"ECE"})
    \/ StartChangeRole(r, {"s2"}, {"admin", "faculty"})
    \/ StartAdmin(r, "deactivate", {"f2"}, {Undefined})
    \/ StartAdmin(r, "activate", {"f2"}, {Undefined})
    \/ StartAdmin(r, "updateCode", {"f3"}, {"cse2024abc"})
    \/ LoginSteps(r)
    \/ RefreshSteps(r)
    \/ CreateSteps(r)
    \/ UpdateSteps(r)
    \/ DeleteSteps(r)
    \/ AccessSteps(r)
    \/ VerifySteps(r)
    \/ ProfileSteps(r)
    \/ ChangeRoleSteps(r)
    \/ AdminSteps(r)

SpecWrites == Init /\ [][NextWrites]_vars

\* The status with which an operation reports success.
SuccessStatus(op) ==
  CASE op = "create" -> 201
    [] op = "login" -> 302
    [] OTHER -> 200

\* C16: when the createLog call of an operation (login, logout, create, delete,
\* access, profile update, role change, deactivation, activation, department-code
\* update) appends nothing, the operation still reports success, with the link in
\* the case of an access, and what it wrote to users, folders and Drive stays.
C16_LogFailureDoesNotAbort ==
  [][\A r \in Slots :
       Reports(r) /\ logs' = logs
         => /\ reqs'[r].status = SuccessStatus(reqs[r].op)
            /\ reqs[r].op = "access" => reqs'[r].data.link = reqs[r].doc.driveFolderLink
            /\ users' = users /\ folders' = folders /\ drive' = drive]_vars

\* C16 witness: f1's delete of folder 1 got its 200 and the folder is inactive,
\* with nothing in the log.
C16_Witness ==
  \E r \in Slots :
    /\ reqs[r].op = "delete" /\ reqs[r].fid = 1 /\ reqs[r].status = 200
    /\ ~folders[1].isActive /\ logs = <<>>

\* C17: every step leaves the log as it was or appends one event to it: the events
\* already there keep their place and their fields.
C17_LogAppendOnly ==
  [][\/ logs' = logs
     \/ /\ Len(logs') = Len(logs) + 1
        /\ SubSeq(logs', 1, Len(logs)) = logs]_vars

\* C17 witness: the log holds two events of different operations.
C17_Witness ==
  /\ Len(logs) = 2
  /\ logs[1].action # logs[2].action

\* C18: every step of an operation that writes to the User or the Folder collection
\* hands over to that operation's createLog call; none sends the response, or
\* goes on, without it.
C18_EveryWriteIsLogged ==
  [][\A r \in Slots :
       reqs'[r] # reqs[r] /\ (users' # users \/ folders' # folders)
         => reqs'[r].pc = "log"]_vars

(***************************************************************************)
(* Time passing between the steps of the handlers: access tokens expire.   *)
(* Faculty f1 refreshes the token and creates, updates and deletes folders *)
(* while the clock advances.                                               *)
(***************************************************************************)
MaxFreshReq == 2

\* Date.now() advances.
Tick ==
  /\ clock < MaxClock
  /\ clock' = clock + 1
  /\ UNCHANGED <<users, folders, logs, drive, providerCalls, oauth2Client, issued, reqs>>

NextFresh ==
  \/ Tick
  \/ \E r \in 1 .. MaxFreshReq :
       \/ StartRefresh(r, {"f1"})
       \/ StartCreate(r, {"f1"}, {Undefined})
       \/ StartUpdate(r, {"f1"}, {1}, {"Graphs"}, {"edit"})
       \/ StartDelete(r, {"f1"}, {1})
       \/ RefreshSteps(r)
       \/ CreateSteps(r)
       \/ UpdateSteps(r)
       \/ DeleteSteps(r)

SpecFresh == Init /\ [][NextFresh]_vars

\* The expiry instant the issuer gave with the access token t: the expiryDate
\* stored next to t in a user document.
ExpiryOf(t) == {users[u].googleTokens.expiryDate :
                  u \in {v \in DOMAIN users : users[v].googleTokens.accessToken = t}}

\* C19: a request that folder create, update or delete sends to Google Drive
\* never carries an access token whose expiry instant has passed.
C19_NoProviderCallWithExpiredToken ==
  [][\A c \in providerCalls' \ providerCalls :
       reqs[c.req].op \in {"create", "update", "delete"}
       => \A e \in ExpiryOf(c.cred) : e >= clock]_vars

\* The stored access token of the principal of request r is valid beyond the
\* safety margin.
FreshBeyondMargin(tokens) == tokens.expiryDate > clock + SafetyMargin

\* C20: a token refresh of a principal whose stored access token is still valid
\* beyond the safety margin sends nothing to the issuer and writes nothing to the
\* stored tokens.
C20_RefreshOnlyWhenExpiring ==
  [][\A r \in Slots :
       /\ (/\ reqs[r].op = "refresh" /\ reqs[r].pc = "start" /\ reqs'[r].pc # "start"
           /\ FreshBeyondMargin(users[reqs[r].user].googleTokens))
          => reqs'[r].pc = "done" /\ issued' = issued
       /\ (/\ reqs[r].op = "refresh" /\ reqs[r].pc = "issuer" /\ reqs'[r].pc # "issuer"
           /\ FreshBeyondMargin(reqs[r].tokens))
          => issued' = issued /\ reqs'[r].pc # "save"]_vars

(***************************************************************************)
(* The stored tokens of faculty under refreshes and repeated logins.  f3   *)
(* has no refresh token stored; g1 is a Google account without a record.   *)
(***************************************************************************)
NextCredential ==
  \E r \in 1 .. MaxTokenReq :
    \/ StartRefresh(r, {"f1", "f3"})
    \/ StartLogin(r, {"f3", "g1"})
    \/ RefreshSteps(r)
    \/ LoginSteps(r)

SpecCredential == Init /\ [][NextCredential]_vars

\* C21: a refresh for a principal without a stored refresh token answers 400 "No
\* refresh token available", prepares and sends nothing to the issuer, and leaves
\* the stored tokens as they were.
C21_NoRefreshTokenFailsWithoutIssuerCall ==
  [][\A r \in Slots :
       /\ reqs[r].op = "refresh" /\ reqs[r].pc = "start" /\ reqs'[r].pc # "start"
       /\ users[reqs[r].user].googleTokens.refreshToken = NoToken
       => /\ reqs'[r].pc = "done" /\ reqs'[r].status = 400
          /\ reqs'[r].message = "No refresh token available. Please re-authenticate."
          /\ issued' = issued /\ oauth2Client' = oauth2Client
          /\ users' = users]_vars

C21_Witness ==
  \E r \in Slots :
    /\ reqs[r].op = "refresh" /\ reqs[r].user = "f3" /\ reqs[r].pc = "done"
    /\ reqs[r].status = 400
    /\ users["f3"].googleTokens.refreshToken = NoToken

(***************************************************************************)
(* Every operation that calls the issuer or Google Drive, one request      *)
(* after the other.                                                        *)
(***************************************************************************)
NextCalls ==
  \E r \in 1 .. MaxAuditReq :
    \/ Quiet /\ StartRefresh(r, {"f1"})
    \/ Quiet /\ StartLogin(r, {"f3"})
    \/ Quiet /\ StartCreate(r, {"f1"}, {"edit"})
    \/ Quiet /\ StartUpdate(r, {"f1"}, {1}, {"Graphs"}, {"edit"})
    \/ Quiet /\ StartDelete(r, {"f1"}, {1})
    \/ RefreshSteps(r)
    \/ googleCallback_getTokens(r)
    \/ googleCallback_getUserInfo(r)
    \/ googleCallback_findOne(r)
    \/ googleCallback_save(r)
    \/ googleCallback_createLog(r)
    \/ CreateSteps(r)
    \/ UpdateSteps(r)
    \/ DeleteSteps(r)

SpecCalls == Init /\ [][NextCalls]_vars

\* The issuer has answered the refresh of request r with a rejection.
RefreshRejected(r) ==
  /\ reqs[r].op = "refresh" /\ reqs[r].pc = "issuer"
  /\ reqs'[r] # reqs[r] /\ issued' = issued

\* C22: a refresh the issuer rejects ends the request with an error and the stored
\* tokens as they were, and is not sent again; and no request sends the same call
\* to Google Drive a second time.
C22_RejectedRefreshIsTerminal ==
  [][/\ \A r \in Slots :
          RefreshRejected(r)
          => /\ reqs'[r].pc = "done" /\ reqs'[r].status = 500
             /\ users' = users
     /\ \A c \in providerCalls' \ providerCalls :
          \A d \in providerCalls : ~(d.req = c.req /\ d.op = c.op)]_vars

C22_Witness ==
  \E r, q \in Slots :
    /\ reqs[r].op = "refresh" /\ reqs[r].pc = "done" /\ reqs[r].status = 500
    /\ users[reqs[r].user].googleTokens = Tokens("f1", 0)
    /\ reqs[q].op = "create" /\ reqs[q].pc = "done"
    /\ {c.op : c \in {d \in providerCalls : d.req = q}} = {"createFolder", "setFolderPermissions"}

\* Request r writes the user record in this step: save() of a refresh or of the
\* login of an existing user.
SavesTokens(r) ==
  /\ reqs[r].op \in {"refresh", "login"} /\ reqs[r].pc = "save" /\ reqs'[r].pc # "save"

\* The user whose record request r writes.
SavedUser(r) == IF reqs[r].op = "login" THEN reqs[r].target ELSE reqs[r].user

\* The issuer response of request r carries a refresh token of its own.
CarriesRefreshToken(r) == reqs[r].op = "login" /\ reqs[r].tokens.refreshToken # NoToken

\* C23: the stored refresh token of a principal changes only in the save of a
\* login whose issuer response carries a refresh token; the save of a refresh, or
\* of a login whose response carries none, leaves it as it was and stores the
\* access token and the expiry of that response.
C23_RefreshTokenKeptUnlessReissued ==
  [][/\ \A u \in DOMAIN users :
          users'[u].googleTokens.refreshToken # users[u].googleTokens.refreshToken
          => \E r \in Slots : /\ SavesTokens(r) /\ SavedUser(r) = u /\ CarriesRefreshToken(r)
                              /\ users'[u].googleTokens.refreshToken = reqs[r].tokens.refreshToken
     /\ \A r \in Slots :
          SavesTokens(r) /\ ~CarriesRefreshToken(r)
          => LET u == SavedUser(r) IN
               /\ users'[u].googleTokens.refreshToken = users[u].googleTokens.refreshToken
               /\ users'[u].googleTokens.accessToken = reqs[r].tokens.accessToken
               /\ users'[u].googleTokens.expiryDate = reqs[r].tokens.expiryDate]_vars

\* The login of request r has found the record of its account.
FindsUser(r) ==
  /\ reqs[r].op = "login" /\ reqs[r].pc = "findOne" /\ reqs'[r].pc = "save"

\* C24 as stated: the save of a login of a known principal stores exactly the
\* access token, refresh token and expiry of the issuer response.
C24_LoginFullyReplacesBundle ==
  [][\A r \in Slots :
       SavesTokens(r) /\ reqs[r].op = "login"
       => users'[reqs[r].target].googleTokens = reqs[r].tokens]_vars

\* C24, amended: the save of a login of a known principal stores the access token
\* and the expiry of the issuer response, and as refresh token the one of the
\* response when it carries one, otherwise the one the record held when the login
\* read it.
C24_LoginFullyReplacesBundle_Amended ==
  [][\A r \in Slots :
       /\ FindsUser(r)
          => reqs'[r].udoc.googleTokens.refreshToken
               = IF CarriesRefreshToken(r) THEN reqs[r].tokens.refreshToken
                 ELSE users[reqs[r].target].googleTokens.refreshToken
       /\ SavesTokens(r) /\ reqs[r].op = "login"
          => LET stored == users'[reqs[r].target].googleTokens IN
               /\ stored.accessToken = reqs[r].tokens.accessToken
               /\ stored.expiryDate = reqs[r].tokens.expiryDate
               /\ stored.refreshToken = reqs[r].udoc.googleTokens.refreshToken]_vars

C24_Witness ==
  \E r \in Slots :
    /\ reqs[r].op = "login" /\ reqs[r].target = "f3" /\ reqs[r].pc = "log"
    /\ reqs[r].tokens.refreshToken = NoToken
    /\ users["f3"].googleTokens.accessToken = reqs[r].tokens.accessToken
    /\ users["f3"].googleTokens.refreshToken \notin {NoToken, reqs[r].tokens.accessToken}

(***************************************************************************)
(* The admin gives f1 a new department code (request 1) while, one after   *)
(* the other, the operations that save a user without touching the code    *)
(* run: profile update, role change, deactivate, activate, login, token    *)
(* refresh and a student's department assignment.                          *)
(***************************************************************************)
MaxSecretReq == 2

OthersQuiet == \A q \in Slots \ {1} : ~InFlight(q)

NextSecret ==
  \/ StartAdmin(1, "updateCode", {"f1"}, {"cse2024abc"})
  \/ AdminSteps(1)
  \/ \E r \in 2 .. MaxSecretReq :
       \/ OthersQuiet /\ StartProfile(r, {"f1"}, {"ECE"})
       \/ OthersQuiet /\ StartChangeRole(r, {"f1"}, {"admin"})
       \/ OthersQuiet /\ StartAdmin(r, "deactivate", {"f1"}, {Undefined})
       \/ OthersQuiet /\ StartAdmin(r, "activate", {"f1"}, {Undefined})
       \/ OthersQuiet /\ StartLogin(r, {"f1"})
       \/ OthersQuiet /\ StartRefresh(r, {"f1"})
       \/ OthersQuiet /\ StartVerify(r, {"s1"}, {"CSE2024ABC"})
       \/ ProfileSteps(r)
       \/ ChangeRoleSteps(r)
       \/ AdminSteps(r)
       \/ googleCallback_getTokens(r)
       \/ googleCallback_getUserInfo(r)
       \/ googleCallback_findOne(r)
       \/ googleCallback_save(r)
       \/ googleCallback_createLog(r)
       \/ RefreshSteps(r)
       \/ VerifySteps(r)

SpecSecret == Init /\ [][NextSecret]_vars

\* A stored department secret: the encryption, under some key and with a salt,
\* of a plaintext code.
IsCiphertext(code) == code.key # "" /\ code.iv >= 1 /\ code.pt \in Codes

\* Request r writes a user record in this step.
SavesUser(r) ==
  /\ reqs[r].pc \in {"save", "saveStudent"}
  /\ reqs'[r].pc # reqs[r].pc

\* C25: every stored non-empty department secret is the encryption of a plaintext
\* code, and a save changes the stored secret of a principal only when it is the
\* save of updateDepartmentCode for that principal: the saves of the other
\* operations leave it as it was, so it decrypts to the same code as before.
C25_SecretEncryptedOnceAndStable ==
  [][/\ \A u \in DOMAIN users :
          users[u].departmentCode # NoCode => IsCiphertext(users[u].departmentCode)
     /\ \A u \in DOMAIN users :
          users'[u].departmentCode # users[u].departmentCode
          => /\ IsCiphertext(users'[u].departmentCode)
             /\ \E r \in Slots : /\ SavesUser(r) /\ reqs[r].op = "updateCode"
                                 /\ reqs[r].target = u
                                 /\ users'[u].departmentCode.pt = reqs[r].body.departmentCode
                                 /\ users'[u].departmentCode.key = CurrentKey]_vars

C25_Witness ==
  /\ users["f1"].departmentCode.pt = "cse2024abc"
  /\ users["f1"].departmentCode.key = CurrentKey
  /\ users["f1"].department = "ECE"
  /\ reqs[1].pc = "done" /\ reqs[1].status = 200
  /\ \E r \in Slots :
       reqs[r].op = "profile" /\ reqs[r].pc = "done" /\ reqs[r].status = 200

(***************************************************************************)
(* The two directions of the department secret on their own: a code is     *)
(* encrypted as pre('save') does, under the key of that time, and read     *)
(* back as getDecryptedDepartmentCode does, under the key of this time.    *)
(* The request record keeps the inputs and the outcome.                    *)
(***************************************************************************)
Keys == {"key0", CurrentKey}

\* CryptoJS.AES.encrypt(code, encKey).toString() stored, then
\* CryptoJS.AES.decrypt(stored, decKey).toString(CryptoJS.enc.Utf8)
EncryptThenDecrypt(r) ==
  /\ reqs[r].pc = "idle"
  /\ \E code \in Codes, encKey \in Keys, decKey \in Keys, iv \in 1 .. MaxIV :
       \E out \in DecryptOutcomes(Encrypt(code, encKey, iv), decKey) :
         reqs' = [reqs EXCEPT ![r] = [Idle EXCEPT
                    !.op = "decrypt", !.pc = "done",
                    !.body = [NoBody EXCEPT !.departmentCode = code],
                    !.me = encKey, !.target = decKey,
                    !.status = IF out = Thrown THEN 500 ELSE 200,
                    !.message = out]]
  /\ UNCHANGED <<users, folders, logs, drive, providerCalls, oauth2Client, issued, clock>>

NextCrypto == \E r \in 1 .. MaxVerifyReq : EncryptThenDecrypt(r)

SpecCrypto == Init /\ [][NextCrypto]_vars

\* C26: decrypting the encryption of a code under the same key gives the code;
\* under a different key it fails with an error and returns no value.
C26_RoundTripAndWrongKeyFails ==
  \A r \in Slots :
    reqs[r].op = "decrypt" =>
      IF reqs[r].me = reqs[r].target
        THEN reqs[r].status = 200 /\ reqs[r].message = reqs[r].body.departmentCode
        ELSE reqs[r].status = 500 /\ reqs[r].message = Thrown

\* The login of request r has ended after Google authenticated its account.
AuthenticatedLoginEnded(r) ==
  reqs[r].op = "login" /\ reqs[r].pc = "done" /\ reqs[r].target # "none"

\* C27: once a login callback of an authenticated Google account has ended, alone
\* or overlapping another first login of the same account, exactly one user
\* record of that account exists.
C27_OnePrincipalPerIdentity ==
  \A r \in Slots :
    AuthenticatedLoginEnded(r)
    => Cardinality({u \in DOMAIN users : u = reqs[r].target}) = 1

(***************************************************************************)
(* f1 creating folders while folder 1 is updated, deleted and opened.      *)
(***************************************************************************)
NextExternalId ==
  \E r \in 1 .. MaxFolderReq :
    \/ StartCreate(r, {"f1"}, {Undefined})
    \/ StartUpdate(r, {"f1"}, {1}, {"Graphs"}, {"edit"})
    \/ StartDelete(r, {"f1"}, {1})
    \/ StartAccess(r, {"s2"}, {1})
    \/ CreateSteps(r)
    \/ UpdateSteps(r)
    \/ DeleteSteps(r)
    \/ AccessSteps(r)

SpecExternalId == Init /\ [][NextExternalId]_vars

\* C28: no step changes the driveFolderId or the driveFolderLink of an existing
\* folder record, and no two folder records, active or not, have the same
\* driveFolderId.
C28_ExternalIdSetOnceAndUnique ==
  [][/\ \A f \in DOMAIN folders :
          /\ f \in DOMAIN folders'
          /\ folders'[f].driveFolderId = folders[f].driveFolderId
          /\ folders'[f].driveFolderLink = folders[f].driveFolderLink
     /\ \A f, g \in DOMAIN folders' :
          f # g => folders'[f].driveFolderId # folders'[g].driveFolderId]_vars

C28_Witness ==
  /\ Cardinality(DOMAIN folders) = 3
  /\ ~folders[1].isActive
  /\ folders[1].driveFolderId = 1
  /\ \E r \in Slots : reqs[r].op = "create" /\ reqs[r].pc = "done" /\ reqs[r].status = 201

(***************************************************************************)
(* f1 creating folders and changing the permission of folder 1, to levels  *)
(* of the enum and to one outside it (PUT /api/folders/:id validates       *)
(* nothing).                                                               *)
(***************************************************************************)
NextPermission ==
  \E r \in 1 .. MaxFolderReq :
    \/ StartCreate(r, {"f1"}, {Undefined, "comment"})
    \/ StartUpdate(r, {"f1"}, {1}, {Undefined}, {"view", "comment", "edit", "owner"})
    \/ CreateSteps(r)
    \/ UpdateSteps(r)

SpecPermission == Init /\ [][NextPermission]_vars

\* The permission level request r asks Drive to set, and the Drive folder it asks for.
RequestedLevel(r) ==
  IF reqs[r].op = "create" THEN permissionsOrView(reqs[r].body.permissions)
  ELSE reqs[r].body.permissions

RequestedFolder(r) ==
  IF reqs[r].op = "create" THEN reqs[r].drv ELSE reqs[r].doc.driveFolderId

\* C29: a setFolderPermissions call that Drive accepts leaves the folder with the
\* role reader for level view, commenter for comment, writer for edit, and reader
\* for any other level.
C29_PermissionLevelToRole ==
  [][\A c \in providerCalls' \ providerCalls :
       c.op = "setFolderPermissions" /\ c.ok
       => LET level == RequestedLevel(c.req) IN
            drive'[RequestedFolder(c.req)].role =
              IF level = "view" THEN "reader"
              ELSE IF level = "comment" THEN "commenter"
              ELSE IF level = "edit" THEN "writer"
              ELSE "reader"]_vars

C29_Witness ==
  \E r \in Slots :
    /\ reqs[r].op = "update" /\ reqs[r].pc = "done" /\ reqs[r].status = 200
    /\ reqs[r].body.permissions = "edit"
    /\ folders[1].permissions = "edit"
    /\ drive[1].role = "writer"

\* The steps of createNewFolder in the order of the handler.
CreateOrder == <<"start", "driveCreate", "drivePerm", "save", "log", "done">>

\* The records createNewFolder has saved (those of Init were there before).
CreatedFolders == {f \in DOMAIN folders : \E r \in Slots : reqs[r].op = "create" /\ reqs[r].fid = f}

\* Drive accepted the call op of request r.
Accepted(r, op) == \E c \in providerCalls : c.req = r /\ c.op = op /\ c.ok

\* The create of request r has failed after Drive had made its folder.
FailedAfterDriveCreate(r) ==
  /\ reqs[r].op = "create" /\ reqs[r].pc = "done" /\ reqs[r].status = 500
  /\ reqs[r].drv # 0

\* C30: a create goes from one step to the next of createFolder, setFolderPermissions,
\* save, createLog, or ends; a record it saved belongs to a Drive folder that both
\* provider calls of the same request succeeded for; and once a create has failed
\* after Drive made its folder, that Drive folder is there and no folder record
\* has its id, in that state and in every later one.
C30_CreateOrderAndOrphans ==
  [][/\ \A r \in Slots :
          reqs[r].op = "create" /\ reqs'[r].pc # reqs[r].pc
          => \E i \in 1 .. (Len(CreateOrder) - 1) :
               /\ reqs[r].pc = CreateOrder[i]
               /\ reqs'[r].pc \in {CreateOrder[i + 1], "done"}
     /\ \A f \in CreatedFolders' :
          \E r \in Slots :
            /\ reqs'[r].op = "create" /\ reqs'[r].fid = f
            /\ reqs'[r].drv = folders'[f].driveFolderId
            /\ Accepted(r, "createFolder")' /\ Accepted(r, "setFolderPermissions")'
     /\ \A r \in Slots :
          FailedAfterDriveCreate(r)'
          => /\ reqs'[r].drv \in DOMAIN drive'
             /\ \A f \in DOMAIN folders' : folders'[f].driveFolderId # reqs'[r].drv]_vars

C30_Witness ==
  \E r \in Slots :
    /\ FailedAfterDriveCreate(r)
    /\ Accepted(r, "createFolder") /\ Accepted(r, "setFolderPermissions")
    /\ reqs[r].message = "Error creating folder"
    /\ reqs[r].drv \in DOMAIN drive
    /\ \A f \in DOMAIN folders : folders[f].driveFolderId # reqs[r].drv

\* The view_folder events recorded for folder f.
ViewEvents(f) ==
  {i \in 1 .. Len(logs) : logs[i].action = "view_folder" /\ logs[i].folderId = f}

\* No access of folder f is under way, and every access of f that returned the link
\* has its event in the log (no append has failed).
AccessesSettled(f) ==
  /\ \A r \in Slots : reqs[r].op = "access" /\ reqs[r].fid = f => ~InFlight(r)
  /\ Cardinality(ViewEvents(f)) = Cardinality(Accessed(f))

\* C31: an access goes from the read to the increment, from the increment to the
\* append of its view_folder event, and from there to the 200 with the link; the
\* step that returns the link appends exactly one view_folder event for that folder
\* unless the append fails; and whenever no access of a folder is under way and no
\* append has failed, the folder's viewCount is the number of view_folder events
\* recorded for it.
C31_ViewCountEqualsViewEvents ==
  [][/\ \A r \in Slots :
          reqs[r].op = "access" /\ reqs'[r].pc # reqs[r].pc
          => \/ reqs[r].pc = "start" /\ reqs'[r].pc \in {"save", "done"}
             \/ /\ reqs[r].pc = "save" /\ reqs'[r].pc = "log"
                /\ folders'[reqs[r].fid].viewCount = reqs[r].doc.viewCount + 1
                /\ logs' = logs
             \/ /\ reqs[r].pc = "log" /\ reqs'[r].pc = "done"
                /\ reqs'[r].status = 200
                /\ reqs'[r].data.link = folders[reqs[r].fid].driveFolderLink
                /\ logs' \in {logs, Append(logs, LogEntry(reqs[r].user, "view_folder", reqs[r].fid))}
     /\ \A f \in DOMAIN folders' :
          AccessesSettled(f)' => folders'[f].viewCount = Cardinality(ViewEvents(f))']_vars

\* Request r is an update of an existing folder by someone who is not its owner.
UpdateByNonOwner(r) ==
  /\ reqs[r].op = "update" /\ reqs[r].fid \in DOMAIN folders
  /\ folders[reqs[r].fid].facultyId # reqs[r].user

\* C32: an update by a requester who is not the folder's owner takes one step, the
\* 403, and that step writes no folder (subject, description and permission as
\* persisted) and sends nothing to Drive; an update by the owner that asks for no
\* permission, or for the permission the folder has, goes from the read straight to
\* the save; and every setFolderPermissions call of an update comes from the owner
\* and asks for a permission other than the one the folder had when it was read.
C32_NonOwnerUpdateRejectedAndNoNeedlessCall ==
  [][/\ \A r \in Slots :
          UpdateByNonOwner(r) /\ reqs'[r] # reqs[r]
          => /\ reqs'[r].pc = "done" /\ reqs'[r].status = 403
             /\ reqs'[r].message = "Not authorized to update this folder"
             /\ folders' = folders /\ drive' = drive /\ providerCalls' = providerCalls
     /\ \A r \in Slots :
          /\ reqs[r].op = "update" /\ reqs[r].pc = "start" /\ reqs'[r].pc # "start"
          /\ reqs[r].fid \in DOMAIN folders /\ ~UpdateByNonOwner(r)
          /\ reqs[r].body.permissions \in {Undefined, folders[reqs[r].fid].permissions}
          => reqs'[r].pc = "save" /\ providerCalls' = providerCalls /\ drive' = drive
     /\ \A r \in Slots :
          reqs[r].op = "update" /\ reqs[r].pc = "save" /\ reqs'[r].pc # "save"
          /\ "permissions" \notin reqs[r].modified
          => /\ providerCalls' = providerCalls /\ drive' = drive
             /\ \A c \in providerCalls : c.req # r
     /\ \A c \in providerCalls' \ providerCalls :
          reqs[c.req].op = "update"
          => /\ c.op = "setFolderPermissions"
             /\ folders[reqs[c.req].fid].facultyId = reqs[c.req].user
             /\ reqs[c.req].body.permissions \notin {Undefined, reqs[c.req].doc.permissions}]_vars

\* C32 witness: f2's update of f1's folder got the 403, and f1's update of the
\* subject alone got its 200; Drive received nothing and the permission is as it was.
C32_Witness ==
  \E r, q \in Slots :
    /\ reqs[r].op = "update" /\ reqs[r].user = "f2" /\ reqs[r].fid = 1
    /\ reqs[r].body.subject = "Graphs" /\ reqs[r].body.permissions = "edit"
    /\ reqs[r].status = 403
    /\ reqs[q].op = "update" /\ reqs[q].user = "f1" /\ reqs[q].fid = 1
    /\ reqs[q].body.subject = "Graphs" /\ reqs[q].body.permissions = Undefined
    /\ reqs[q].status = 200
    /\ folders[1].subject = "Graphs" /\ folders[1].permissions = "view"
    /\ providerCalls = {} /\ drive[1].role = "reader"

(***************************************************************************)
(* The admin replaces f1's department code (request 1) while, one after    *)
(* the other, f3 is given the code f1 had, f1 is deactivated and          *)
(* activated, and a student presents the old and the new code.             *)
(***************************************************************************)
NextRotate ==
  \/ StartAdmin(1, "updateCode", {"f1"}, {"cse2024abc"})
  \/ AdminSteps(1)
  \/ \E r \in Slots \ {1} :
       \/ OthersQuiet /\ StartAdmin(r, "updateCode", {"f3"}, {"CSE2024ABC"})
       \/ OthersQuiet /\ StartAdmin(r, "deactivate", {"f1"}, {Undefined})
       \/ OthersQuiet /\ StartAdmin(r, "activate", {"f1"}, {Undefined})
       \/ OthersQuiet /\ StartVerify(r, {"s1"}, {"CSE2024ABC", "cse2024abc"})
       \/ AdminSteps(r)
       \/ VerifySteps(r)

SpecRotate == Init /\ [][NextRotate]_vars

\* The codes the completed saves of updateDepartmentCode have given to user u.
ReplacementCodes(u) ==
  {reqs[q].body.departmentCode :
     q \in {p \in Slots : /\ reqs[p].op = "updateCode" /\ reqs[p].target = u
                          /\ reqs[p].pc \in {"log", "done"} /\ reqs[p].status \in {0, 200}}}

\* C33 as stated: once the code of a faculty principal has been replaced by a new
\* code, a verification for that principal's department passes with the new code,
\* and passes with another code, the replaced one included, only if another active
\* faculty principal of the department holds that code.
C33_NewCodeVerifiesOldOnlyThroughOthers ==
  [][\A r \in Slots : \A u \in DOMAIN users : \A c \in Codes :
       /\ Decides(r) /\ ReplacementCodes(u) = {c}
       /\ users[u].role = "faculty" /\ users[u].department = reqs[r].body.department
       => IF reqs[r].body.departmentCode = c
            THEN Passed(reqs'[r])
            ELSE Passed(reqs'[r])
                   => Holders(reqs[r].body.department, reqs[r].body.departmentCode) \ {u} # {}]_vars

\* C33, amended: once the code of a faculty principal has been replaced by a new
\* code, a verification for that principal's department passes with the new code
\* while the principal is active, and passes with another code, the replaced one
\* included, only if another active faculty principal of the department holds
\* that code.
C33_NewCodeVerifiesOldOnlyThroughOthers_Amended ==
  [][\A r \in Slots : \A u \in DOMAIN users : \A c \in Codes :
       /\ Decides(r) /\ ReplacementCodes(u) = {c}
       /\ users[u].role = "faculty" /\ users[u].department = reqs[r].body.department
       => IF reqs[r].body.departmentCode = c
            THEN users[u].isActive => Passed(reqs'[r])
            ELSE Passed(reqs'[r])
                   => Holders(reqs[r].body.department, reqs[r].body.departmentCode) \ {u} # {}]_vars

\* C33 witness: f1's code has been replaced; a student who presented the new code
\* for CSE was let in, and one who presented the code f1 had was refused.
C33_Witness ==
  \E r, q \in Slots :
    /\ reqs[1].op = "updateCode" /\ reqs[1].pc = "done" /\ reqs[1].status = 200
    /\ users["f1"].isActive /\ users["f1"].departmentCode.pt = "cse2024abc"
    /\ reqs[r].op = "verify" /\ reqs[r].body.department = "CSE"
    /\ reqs[r].body.departmentCode = "cse2024abc" /\ reqs[r].status = 200
    /\ reqs[q].op = "verify" /\ reqs[q].body.department = "CSE"
    /\ reqs[q].body.departmentCode = "CSE2024ABC" /\ reqs[q].status = 401

\* C34: a step of verifyDepartmentCode that ends in a mismatch (401) or in "no
\* faculty" (404) changes no record; a verification that passes goes on to write
\* exactly when the requesting student had no department; and its write changes
\* the requesting student's record only, and there the department only, from
\* unset to the verified department: a department that is set is not overwritten.
C34_VerifyWritesOnlyUnsetDepartment ==
  [][\A r \in Slots :
       reqs[r].op = "verify" /\ reqs'[r] # reqs[r]
       => /\ reqs'[r].status \in {401, 404}
               => users' = users /\ folders' = folders /\ logs' = logs
          /\ Decides(r) /\ Passed(reqs'[r])
               => (reqs'[r].pc = "findStudent" <=> users[reqs[r].user].department = "")
          /\ users' # users
               => /\ reqs'[r].status = 200
                  /\ \A u \in DOMAIN users \ {reqs[r].user} : users'[u] = users[u]
                  /\ users'[reqs[r].user]
                       = [users[reqs[r].user] EXCEPT !.department = reqs[r].body.department]
                  /\ users[reqs[r].user].department = ""]_vars

(***************************************************************************)
(* Administrators changing roles and deactivating accounts, their own and  *)
(* others': a1, and s2 once a1 has made s2 an administrator.               *)
(***************************************************************************)
NextSelf ==
  \E r \in 1 .. MaxAuditReq :
    \/ StartChangeRole(r, {"a1", "s2"}, {"admin", "student"})
    \/ StartAdmin(r, "deactivate", {"a1", "s2"}, {Undefined})
    \/ ChangeRoleSteps(r)
    \/ deactivateUser_findById(r)
    \/ adminController_save(r)
    \/ adminController_createLog(r)

SpecSelf == Init /\ [][NextSelf]_vars

C36_SoftDeleteIsIrreversible ==
  [][\A f \in DOMAIN folders :
       ~folders[f].isActive => f \in DOMAIN folders' /\ ~folders'[f].isActive]_vars

\* C36 witness: folder 1 has been soft-deleted and the delete has answered, while an
\* update that read the folder when it was active has its save still to come.
C36_Witness ==
  \E r, q \in Slots :
    /\ reqs[q].op = "delete" /\ reqs[q].fid = 1 /\ reqs[q].pc = "done" /\ reqs[q].status = 200
    /\ ~folders[1].isActive
    /\ reqs[r].op = "update" /\ reqs[r].fid = 1 /\ reqs[r].pc = "save"
    /\ reqs[r].doc.isActive /\ reqs[r].doc.subject = "Graphs"
    /\ "permissions" \in reqs[r].modified

====
